---- MODULE Spec2Model ----
(***************************************************************************)
(* OfferGo front end: the Submission page (offer list, priority sliders,   *)
(* the asynchronous handleSubmit pipeline ingest -> evaluate -> market     *)
(* snapshot), the evaluation normaliser mapEvalToAnalysis, and the         *)
(* browser session storage the pipeline writes.                            *)
(*                                                                         *)
(* Numbers.  A raw score is the rational  score / ScoreDen  and a raw      *)
(* confidence is  confidence / ConfDen , and the arithmetic on them is     *)
(* exact.  A JavaScript number that may be NaN, null or undefined is a     *)
(* record [t, v] with t in {"num", "NaN", "null", "undefined"}.  Any other *)
(* optional value (a field that may be undefined, a storage key that may   *)
(* be absent) is a set with no element or one element.                     *)
(***************************************************************************)
EXTENDS Integers, Sequences, FiniteSets, TLC

\* ------------------------------------------------------------------ bounds
MaxRuns == 2
MaxMounts == 2
MaxEdits == 3
MaxSliderMoves == 1
ScoreDen == 4
ConfDen == 8
MaxRisks == 8

\* ------------------------------------------------------- program constants
PriorityMin == 1
PriorityMax == 5
PriorityDefault == 3

Keys == {"financial", "career", "lifestyle", "alignment"}

DefaultPriorities ==
  [financial |-> PriorityDefault, career |-> PriorityDefault,
   lifestyle |-> PriorityDefault, alignment |-> PriorityDefault]

\* ------------------------------------------------------------ JS numbers
Num(n) == [t |-> "num", v |-> n]
NaN == [t |-> "NaN", v |-> 0]
Null == [t |-> "null", v |-> 0]
Undefined == [t |-> "undefined", v |-> 0]

Min2(a, b) == IF a <= b THEN a ELSE b
Max2(a, b) == IF a >= b THEN a ELSE b

\* Math.round(n / d) for d > 0: the nearest integer, ties towards +infinity.
Round(n, d) == (2 * n + d) \div (2 * d)

clamp_LowOnly(x, low, high) ==
  IF x.t = "num" THEN [t |-> "num", v |-> IF x.v >= low THEN x.v ELSE low]
  ELSE [t |-> "NaN", v |-> 0]

\* clamp(n, low, high) = Math.max(low, Math.min(high, n)); NaN propagates.
clamp(x, low, high) ==
  IF x.t = "num" THEN Num(Max2(low, Min2(high, x.v))) ELSE NaN

\* ------------------------------------------------------------ file names
Upper == <<"A","B","C","D","E","F","G","H","I","J","K","L","M",
           "N","O","P","Q","R","S","T","U","V","W","X","Y","Z">>
Lower == <<"a","b","c","d","e","f","g","h","i","j","k","l","m",
           "n","o","p","q","r","s","t","u","v","w","x","y","z">>

ToLowerChar(c) ==
  IF \E i \in 1..26 : Upper[i] = c
    THEN Lower[CHOOSE i \in 1..26 : Upper[i] = c]
    ELSE c

toLowerCase(s) == [i \in 1..Len(s) |-> ToLowerChar(s[i])]

endsWith(s, suf) ==
  /\ Len(s) >= Len(suf)
  /\ SubSeq(s, Len(s) - Len(suf) + 1, Len(s)) = suf

DotPdf == <<".", "p", "d", "f">>

IsPdfName(name) == endsWith(toLowerCase(name), DotPdf)

\* The files the user may pick in the file chooser.
FileNames ==
  { <<"B", ".", "P", "D", "F">>,
    <<"c", ".", "d", "o", "c">> }

\* ------------------------------------------------- evaluation normaliser
The(s) == CHOOSE x \in s : TRUE

toGrade_Shifted(score100) ==
  IF score100.t # "num" THEN "D"
  ELSE IF score100.v > 93 THEN "A"
  ELSE IF score100.v >= 85 THEN "A-"
  ELSE IF score100.v >= 78 THEN "B+"
  ELSE IF score100.v >= 70 THEN "B"
  ELSE IF score100.v >= 62 THEN "C"
  ELSE "D"

\* Every comparison with NaN is false, so NaN falls through to "D".
toGrade(score100) ==
  IF score100.t # "num" THEN "D"
  ELSE IF score100.v >= 93 THEN "A"
  ELSE IF score100.v >= 85 THEN "A-"
  ELSE IF score100.v >= 78 THEN "B+"
  ELSE IF score100.v >= 70 THEN "B"
  ELSE IF score100.v >= 62 THEN "C"
  ELSE "D"

\* Math.round(x * mult) for the raw number x = x.v / den; undefined * mult
\* is NaN and null * mult is 0.
RoundScaled_Floor(x, mult, den) ==
  IF x.t = "num" THEN Num((x.v * mult) \div den)
  ELSE IF x.t = "null" THEN Num(0)
  ELSE NaN

RoundScaled(x, mult, den) ==
  IF x.t = "num" THEN Num(Round(x.v * mult, den))
  ELSE IF x.t = "null" THEN Num(0)
  ELSE NaN

OverallScore(evalOut) == clamp(RoundScaled(evalOut.score, 10, ScoreDen), 0, 100)

Confidence(evalOut) ==
  clamp(RoundScaled(evalOut.confidence, 100, ConfDen), 0, 100)

riskPenalty(evalOut) ==
  IF evalOut.recommendation = {"needs_more_info"} THEN 18
  ELSE IF evalOut.recommendation = {"renegotiate"} THEN 8
  ELSE 0

\* Math.round(76 - risks.length * 7 - riskPenalty + confidence * 0.1),
\* computed in tenths.  Only called when evalOut.risks is defined.
RiskScore_RawConf(evalOut) ==
  LET confidence == RoundScaled(evalOut.confidence, 100, ConfDen) IN
  IF confidence.t # "num" THEN NaN
  ELSE clamp(Num(Round(760 - Len(The(evalOut.risks)) * 70
                        - riskPenalty(evalOut) * 10 + confidence.v, 10)),
             12, 95)

RiskScore(evalOut) ==
  LET confidence == Confidence(evalOut) IN
  IF confidence.t # "num" THEN NaN
  ELSE clamp(Num(Round(760 - Len(The(evalOut.risks)) * 70
                        - riskPenalty(evalOut) * 10 + confidence.v, 10)),
             12, 95)

\* clamp(Math.round(overallScore + offset + (priority - 3) * 6), low, high)
CategoryScore(overallScore, offset, priority, low, high) ==
  IF overallScore.t # "num" THEN NaN
  ELSE clamp(Num(Round(overallScore.v + offset + (priority - 3) * 6, 1)),
             low, high)

CategoryScores_Swapped(evalOut, prio) ==
  LET overallScore == OverallScore(evalOut) IN
  [financial |-> CategoryScore(overallScore, 0, prio.financial, 8, 98),
   career    |-> CategoryScore(overallScore, -4, prio.career, 8, 98),
   lifestyle |-> CategoryScore(overallScore, -8, prio.alignment, 8, 95),
   alignment |-> CategoryScore(overallScore, -6, prio.lifestyle, 8, 96),
   risk      |-> RiskScore(evalOut)]

CategoryScores(evalOut, prio) ==
  LET overallScore == OverallScore(evalOut) IN
  [financial |-> CategoryScore(overallScore, 0, prio.financial, 8, 98),
   career    |-> CategoryScore(overallScore, -4, prio.career, 8, 98),
   lifestyle |-> CategoryScore(overallScore, -8, prio.lifestyle, 8, 95),
   alignment |-> CategoryScore(overallScore, -6, prio.alignment, 8, 96),
   risk      |-> RiskScore(evalOut)]

IsStrength(d) == d.impact = "positive" \/ d.impact = "neutral"

Labels(ds) == [i \in 1..Len(ds) |-> ds[i].label]

Strengths_NoCap(evalOut) ==
  Labels(SelectSeq(The(evalOut.key_drivers), IsStrength))

Strengths(evalOut) ==
  LET kept == Labels(SelectSeq(The(evalOut.key_drivers), IsStrength)) IN
  SubSeq(kept, 1, Min2(6, Len(kept)))

NoStrengths == <<"Model did not return positive key drivers.">>
NoTargets == <<"No negotiation targets were returned by the model.">>

\* A string built by a template or by join is the sequence of its pieces.
TargetText(t) == <<t.item, ": ", t.ask, " (", t.reason, ")">>

RECURSIVE JoinTargets(_)
JoinTargets(ts) ==
  IF Len(ts) = 0 THEN <<>>
  ELSE IF Len(ts) = 1 THEN TargetText(ts[1])
  ELSE TargetText(ts[1]) \o <<" ">> \o JoinTargets(Tail(ts))

NegotiationInsights_Capped(evalOut) ==
  LET ts == The(evalOut.negotiation_targets) IN
  IF Len(ts) > 0 THEN JoinTargets(SubSeq(ts, 1, Min2(2, Len(ts))))
  ELSE NoTargets

NegotiationInsights(evalOut) ==
  IF Len(The(evalOut.negotiation_targets)) > 0
    THEN JoinTargets(The(evalOut.negotiation_targets))
    ELSE NoTargets

\* currentFileName.replace(/\.(pdf|doc|docx)$/i, "")
StripExt(name) ==
  LET low == toLowerCase(name)
      cut(k) == SubSeq(name, 1, Len(name) - k) IN
  IF endsWith(low, <<".", "p", "d", "f">>) THEN cut(4)
  ELSE IF endsWith(low, <<".", "d", "o", "c">>) THEN cut(4)
  ELSE IF endsWith(low, <<".", "d", "o", "c", "x">>) THEN cut(5)
  ELSE name

\* Reading .length or .filter of an undefined field raises a TypeError.
mapEvalThrows(evalOut) ==
  \/ evalOut.risks = {}
  \/ evalOut.key_drivers = {}
  \/ evalOut.negotiation_targets = {}

\* The value returned by mapEvalToAnalysis; only used when it does not throw.
mapEvalToAnalysis(evalOut, prio, currentFileName) ==
  LET overallScore == OverallScore(evalOut)
      categoryScores == CategoryScores(evalOut, prio)
      strengths == Strengths(evalOut) IN
  [overallScore |-> overallScore,
   categoryScores |-> categoryScores,
   grade |-> toGrade(overallScore),
   strengths |-> IF Len(strengths) > 0 THEN strengths ELSE NoStrengths,
   risks |-> The(evalOut.risks),
   financialProjection |-> evalOut.one_paragraph_summary,
   negotiationInsights |-> NegotiationInsights(evalOut),
   comparisonData |->
     <<[name |-> StripExt(currentFileName),
        overall |-> overallScore,
        financial |-> categoryScores.financial,
        career |-> categoryScores.career,
        risk |-> categoryScores.risk]>>,
   confidence |-> Confidence(evalOut),
   recommendation |-> evalOut.recommendation]

\* JSON.stringify writes NaN as null.
JsonNum(x) == IF x.t = "NaN" THEN Null ELSE x

JsonAnalysis(a) ==
  [a EXCEPT !.overallScore = JsonNum(@),
            !.confidence = JsonNum(@),
            !.categoryScores = [k \in DOMAIN @ |-> JsonNum(@[k])],
            !.comparisonData =
               [i \in 1..Len(@) |->
                  [@[i] EXCEPT !.overall = JsonNum(@),
                               !.financial = JsonNum(@),
                               !.career = JsonNum(@),
                               !.risk = JsonNum(@)]]]

\* ------------------------------------------------------------------ state
VARIABLES
  page,            \* the route shown: "other", "submit" or "results"
  mountId,         \* which instance of the Submission component is mounted
  offers,          \* Submission state: the uploaded offers
  priorities,      \* Submission state: the four slider ratings
  edits,           \* changes made to the offer list so far (bounded)
  sliderMoves,     \* slider changes made so far (bounded)
  isSubmitting,    \* Submission state
  runs,            \* the handleSubmit activations awaiting a response
  runCount,        \* handleSubmit activations started so far (bounded)
  sessionStorage,  \* key -> {} (absent) or {value}
  toast,           \* the notification raised by the handler that ran last
  sent,            \* the network requests issued by the handler that ran last
  lastEvent,       \* the kind of handler that ran last, with the response it received
  backendOfferId,  \* Results state: {} (null) or {id}
  offerVsMarket,   \* Results state: {} (null) or {[offerTotal, marketTotal]}
  chat,            \* Results state: the transcript
  input,           \* Results state: the text in the chat box
  typing,          \* Results state
  chatRuns,        \* the sendMessage activations awaiting a response
  chatCount,       \* sendMessage activations started so far (bounded)
  data,            \* Results state: {} (null) or {the analysis shown}
  localStorage,    \* the "offergo-profile" entry: {} (absent) or {value}
  profile,         \* useProfile state of the page shown
  loginError       \* DemoLoginModal state: the error text

vars == <<page, mountId, offers, priorities, edits, sliderMoves, isSubmitting, runs,
          runCount, sessionStorage, toast, sent, lastEvent, backendOfferId,
          offerVsMarket, chat, input, typing, chatRuns, chatCount, data,
          localStorage, profile, loginError>>

component == <<offers, priorities, isSubmitting>>

results == <<backendOfferId, offerVsMarket, chat, input, typing, data>>

account == <<localStorage, profile, loginError>>

chatVars == <<chatRuns, chatCount>>

SessionKeys ==
  {"offergo-submission", "offergo-demo-analysis", "offergo-workflow-eval",
   "offergo-ingest-parsed", "offergo-market-snapshot", "offergo-demo-user"}

NoResp == [threw |-> FALSE, message |-> "", ok |-> FALSE, text |-> "",
           jsonOk |-> FALSE, offer_id |-> {}]

Event(type, run, resp) == [type |-> type, run |-> run, resp |-> resp]

\* What lastEvent keeps of a response; offer_id is that of an ingest body.
Meta(resp, offerId) ==
  [threw |-> resp.threw, message |-> resp.message, ok |-> resp.ok,
   text |-> resp.text, jsonOk |-> resp.jsonOk, offer_id |-> offerId]

\* ------------------------------------------------------ server responses
ParsedFields ==
  [base_salary |-> Num(100), bonus_target |-> Num(10), equity_amount |-> Null]

EmptyObject ==
  [base_salary |-> Undefined, bonus_target |-> Undefined,
   equity_amount |-> Undefined]

NoIngest == [offer_id |-> {}, parsed |-> {}]

IngestJsons ==
  { [offer_id |-> {}, parsed |-> {ParsedFields}],
    [offer_id |-> {0}, parsed |-> {ParsedFields}],
    [offer_id |-> {1}, parsed |-> {}],
    [offer_id |-> {2}, parsed |-> {ParsedFields}] }

Driver(label, impact) == [label |-> label, impact |-> impact]
Target(item, ask, reason) == [item |-> item, ask |-> ask, reason |-> reason]

EvalAccept ==
  [score |-> Num(35), recommendation |-> {"accept"}, confidence |-> Num(7),
   key_drivers |-> {<<Driver("Strong base", "positive")>>},
   negotiation_targets |-> {<<>>},
   risks |-> {<<>>},
   one_paragraph_summary |-> {"summary A"}]

EvalRenegotiate ==
  [score |-> Num(25), recommendation |-> {"renegotiate"},
   confidence |-> Num(4),
   key_drivers |-> {<<Driver("Low equity", "negative"),
                      Driver("Remote", "neutral")>>},
   negotiation_targets |-> {<<Target("Base", "+10%", "below market")>>},
   risks |-> {<<"cliff", "runway">>},
   one_paragraph_summary |-> {"summary R"}]

EvalNoScore == [EvalAccept EXCEPT !.score = Undefined]
EvalNoRisks == [EvalRenegotiate EXCEPT !.risks = {}]

NoEval ==
  [score |-> Undefined, recommendation |-> {}, confidence |-> Undefined,
   key_drivers |-> {}, negotiation_targets |-> {}, risks |-> {},
   one_paragraph_summary |-> {}]

EvalJsons == {EvalAccept, EvalNoScore, EvalNoRisks}

Snapshot1 == [provider |-> "databricks", market_total_est |-> 120,
              offer_total_est |-> 110]
NoSnapshot == [provider |-> "", market_total_est |-> 0, offer_total_est |-> 0]

MarketJsons == {Snapshot1}

\* fetch rejects (network error), resolves with a non-2xx status, resolves
\* with a body that is not JSON, or resolves with a JSON body.
Responses(jsons, none, what) ==
  { [threw |-> TRUE, message |-> "Failed to fetch", ok |-> FALSE,
     text |-> "", jsonOk |-> FALSE, json |-> none],
    [threw |-> FALSE, message |-> "", ok |-> FALSE,
     text |-> what, jsonOk |-> FALSE, json |-> none],
    [threw |-> FALSE, message |-> "Unexpected token", ok |-> TRUE,
     text |-> "", jsonOk |-> FALSE, json |-> none] }
  \cup { [threw |-> FALSE, message |-> "", ok |-> TRUE, text |-> "",
          jsonOk |-> TRUE, json |-> j] : j \in jsons }

IngestResponses == Responses(IngestJsons, NoIngest, "ingest rejected")
EvalResponses == Responses(EvalJsons, NoEval, "evaluate rejected")
MarketResponses == Responses(MarketJsons, NoSnapshot, "snapshot rejected")

\* The error a response raises before its JSON is looked at: the rejection's
\* message, the body text of a non-2xx response, or the parser's message.
Failed(resp) == resp.threw \/ ~resp.ok \/ ~resp.jsonOk

ErrorMessage(resp) ==
  IF resp.threw THEN resp.message
  ELSE IF ~resp.ok THEN resp.text
  ELSE resp.message

NoOfferIdMessage == "Ingest succeeded but no offer_id was returned."
TypeErrorMessage == "Cannot read properties of undefined"

\* ------------------------------------------------------------------- init
EmptyStorage == [k \in SessionKeys |-> {}]

\* A stored text that JSON.parse rejects.
NotJson == [notJson |-> TRUE]

\* What a read inside try / catch makes of a stored entry.
Readable(stored) == IF stored = {NotJson} THEN {} ELSE stored

\* emptyProfile of the profile store; the fields are all strings but
\* resumeName and completed.
emptyProfile ==
  [name |-> "", city |-> "", country |-> "", nationality |-> "",
   monthlyExpenses |-> "", ownedAsset |-> "", debts |-> "",
   resumeName |-> {}, completed |-> FALSE]

\* A first visit: useProfile found nothing stored, started from the empty
\* profile, and its effect stored it.
FirstLoad ==
  /\ localStorage = {emptyProfile}
  /\ profile = emptyProfile
  /\ loginError = ""

\* No Results page is mounted and no chat request was ever sent.
NoResults ==
  /\ data = {}
  /\ backendOfferId = {}
  /\ offerVsMarket = {}
  /\ chat = <<>>
  /\ input = ""
  /\ typing = FALSE
  /\ chatRuns = {}
  /\ chatCount = 0

Init ==
  /\ page = "other"
  /\ mountId = 0
  /\ offers = <<>>
  /\ priorities = DefaultPriorities
  /\ edits = 0
  /\ sliderMoves = 0
  /\ isSubmitting = FALSE
  /\ runs = {}
  /\ runCount = 0
  /\ sessionStorage = EmptyStorage
  /\ toast = {}
  /\ sent = <<>>
  /\ lastEvent = Event("init", 0, NoResp)
  /\ NoResults
  /\ FirstLoad

\* ------------------------------------------- results page: text patterns
\* A text as the patterns of the results page read it: "offered", "offer"
\* and "market" are the keywords (in any letter case), "num" a run of digits
\* and commas with an optional decimal part, holding its value in hundredths,
\* "dash" a '-', "comma" a ',' and "word" any other characters.
Tok(k, v) == [k |-> k, v |-> v]

Tokens(s) ==
  CASE s = "You were offered $1,200 in total" ->
         <<Tok("word", 0), Tok("offered", 0), Tok("word", 0),
           Tok("num", 120000), Tok("word", 0)>>
    [] s = "market median is 1,500" ->
         <<Tok("market", 0), Tok("word", 0), Tok("num", 150000)>>
    [] s = "offer of 1,000 vs market 1,100" ->
         <<Tok("offer", 0), Tok("word", 0), Tok("num", 100000),
           Tok("word", 0), Tok("market", 0), Tok("num", 110000)>>
    [] s = "market (-5% yoy) at 900" ->
         <<Tok("market", 0), Tok("word", 0), Tok("dash", 0), Tok("num", 500),
           Tok("word", 0), Tok("num", 90000)>>
    [] s = "market, strong and stable" ->
         <<Tok("market", 0), Tok("comma", 0), Tok("word", 0)>>
    [] s = "offer: 0" ->
         <<Tok("offer", 0), Tok("word", 0), Tok("num", 0)>>
    [] s = "market 0.40" ->
         <<Tok("market", 0), Tok("word", 0), Tok("num", 40)>>
    [] s = "offered, roughly, 900" ->
         <<Tok("offered", 0), Tok("comma", 0), Tok("word", 0),
           Tok("comma", 0), Tok("num", 90000)>>
    [] OTHER -> <<Tok("word", 0)>>

\* [^0-9-]* after the keyword at i runs up to the first digit or '-'.
RunEnd(text, i) ==
  LET stops == {j \in (i + 1)..Len(text) : text[j].k \in {"num", "dash"}} IN
  IF stops = {} THEN Len(text) + 1
  ELSE CHOOSE j \in stops : \A h \in stops : j <= h

\* keyword[^0-9-]*\$?([\d,]+(?:\.\d+)?) tried at the keyword at i, the run
\* after it ending before e, with parseNumber applied to the group: the
\* number that ends the run; or, by backtracking, a ',' inside the run, which
\* parseNumber cleans to "" and turns into null; or no match.
MatchEnd(text, i, e) ==
  IF e <= Len(text) /\ text[e].k = "num" THEN {Num(text[e].v)}
  ELSE IF \E c \in (i + 1)..(e - 1) : text[c].k = "comma" THEN {Null}
  ELSE {}

MatchAt(text, i) == MatchEnd(text, i, RunEnd(text, i))

Least(S) == CHOOSE i \in S : \A h \in S : i <= h

\* String.match without the g flag: the leftmost keyword that matches.
MatchFrom(text, starts) ==
  IF starts = {} THEN {} ELSE MatchAt(text, Least(starts))

MatchTokens(text, keywords) ==
  MatchFrom(text, {i \in 1..Len(text) :
                     text[i].k \in keywords /\ MatchAt(text, i) # {}})

Match(s, keywords) == MatchTokens(Tokens(s), keywords)

\* drivers.map(label match).find(Boolean): the first label that matches.
FirstHit(drivers, hits, keywords) ==
  IF hits = {} THEN {} ELSE Match(drivers[Least(hits)].label, keywords)

FirstDriverMatch(drivers, keywords) ==
  FirstHit(drivers,
           {i \in 1..Len(drivers) : Match(drivers[i].label, keywords) # {}},
           keywords)

\* a ?? b ?? c on match results, then parseNumber: the first that matched.
FirstOf(a, b, c) ==
  IF a # {} THEN The(a) ELSE IF b # {} THEN The(b)
  ELSE IF c # {} THEN The(c) ELSE Null

Summary(e) == The(e.one_paragraph_summary)

\* raw is {} (null) or {evaluation}; the result is a number or null.
extractMarketTotal(raw) ==
  IF raw = {} THEN Null
  ELSE FirstOf(FirstDriverMatch(The(The(raw).key_drivers), {"market"}),
               Match(Summary(The(raw)), {"market"}), {})

\* "offer" is found inside "offered" as well.
extractOfferTotal(raw) ==
  IF raw = {} THEN Null
  ELSE FirstOf(Match(Summary(The(raw)), {"offered"}),
               Match(Summary(The(raw)), {"offer", "offered"}),
               FirstDriverMatch(The(The(raw).key_drivers),
                                {"offer", "offered"}))

\* .map or .match of a missing field raises a TypeError.
ExtractThrows(raw) ==
  /\ raw # {}
  /\ \/ The(raw).key_drivers = {}
     \/ The(raw).one_paragraph_summary = {}

\* ------------------------------------------------ results page: mounting
\* Amounts are counted in hundredths.  Number(x ?? 0): null and undefined
\* count as 0.
NumberOr0(x) == IF x.t = "num" THEN x.v ELSE 0

\* base + base * (bonusPct / 100) + equity
StructuredTotal(parsed) ==
  LET base == NumberOr0(parsed.base_salary)
      bonusPct == NumberOr0(parsed.bonus_target)
      equity == NumberOr0(parsed.equity_amount) IN
  100 * base + base * bonusPct + 100 * equity

\* Math.round(total * mult / den), a whole amount.
RoundRatio(total, mult, den) == 100 * Round(total * mult, 100 * den)

\* (rawEval?.recommendation ?? "needs_more_info") === "accept" ? 0.95 : 1.2
MarketFactor_Fixed(raw) == <<12, 10>>

MarketFactor(raw) ==
  IF raw # {} /\ The(raw).recommendation = {"accept"} THEN <<95, 100>>
  ELSE <<12, 10>>

Scaled(total, factor) == RoundRatio(total, factor[1], factor[2])

MarketFromOffer(offerTotal, raw) == Scaled(offerTotal, MarketFactor(raw))

OfferFromMarket(marketTotal) == RoundRatio(marketTotal, 75, 100)

\* if (offerTotal <= 0 && extractedOffer && extractedOffer > 0)
OfferFromText_Always(offerTotal, extractedOffer) ==
  IF extractedOffer.t = "num" /\ extractedOffer.v > 0 THEN extractedOffer.v
  ELSE offerTotal

OfferFromText(offerTotal, extractedOffer) ==
  IF offerTotal <= 0 /\ extractedOffer.t = "num" /\ extractedOffer.v > 0
    THEN extractedOffer.v
    ELSE offerTotal

\* if (offerTotal > 0 && marketTotal > 0) setOfferVsMarket(...)
Shown_MarketOnly(offerTotal, marketTotal) == marketTotal > 0

Shown(offerTotal, marketTotal) == offerTotal > 0 /\ marketTotal > 0

Totals(offerTotal, marketTotal) ==
  IF Shown(offerTotal, marketTotal)
    THEN {[offerTotal |-> offerTotal, marketTotal |-> marketTotal]}
    ELSE {}

\* if (offerTotal <= 0 && marketTotal > 0) offerTotal = Math.round(...)
FillOffer(offerTotal, marketTotal) ==
  IF offerTotal <= 0 /\ marketTotal > 0 THEN OfferFromMarket(marketTotal)
  ELSE offerTotal

\* if (marketTotal <= 0 && offerTotal > 0) marketTotal = Math.round(...)
FillMarket(offerTotal, marketTotal, raw) ==
  IF marketTotal <= 0 /\ offerTotal > 0 THEN MarketFromOffer(offerTotal, raw)
  ELSE marketTotal

OfferThenShow(offerTotal, marketTotal) ==
  Totals(FillOffer(offerTotal, marketTotal), marketTotal)

MarketThenShow(offerTotal, marketTotal, raw) ==
  Totals(offerTotal, FillMarket(offerTotal, marketTotal, raw))

\* The branch taken when "offergo-ingest-parsed" is stored: the structured
\* total or else the text's, then the market fallback, then the offer's.
MarketThenOffer(offerTotal, marketTotal, raw) ==
  OfferThenShow(offerTotal, FillMarket(offerTotal, marketTotal, raw))

DeriveFromParsed(parsed, raw) ==
  MarketThenOffer(OfferFromText(StructuredTotal(parsed),
                                extractOfferTotal(raw)),
                  NumberOr0(extractMarketTotal(raw)), raw)

\* The branch taken when it is not: the offer fallback first.
OfferThenMarket(offerTotal, marketTotal, raw) ==
  MarketThenShow(FillOffer(offerTotal, marketTotal), marketTotal, raw)

DeriveFromText(raw) ==
  OfferThenMarket(NumberOr0(extractOfferTotal(raw)),
                  NumberOr0(extractMarketTotal(raw)), raw)

\* Which branch runs.
Derive(rawParsed, raw) ==
  IF ExtractThrows(raw) THEN {}
  ELSE IF rawParsed # {} THEN DeriveFromParsed(The(rawParsed), raw)
  ELSE DeriveFromText(raw)

\* An exception inside the first branch is caught and leaves the state null;
\* the second branch has no try.
OfferVsMarket(storage) ==
  IF storage["offergo-ingest-parsed"] = {NotJson} THEN {}
  ELSE Derive(storage["offergo-ingest-parsed"],
              Readable(storage["offergo-workflow-eval"]))

\* generateDemoData parses the stored analysis, or else the stored
\* submission, outside any try.
DataThrows_Caught(storage) == FALSE

DataThrows(storage) ==
  \/ storage["offergo-demo-analysis"] = {NotJson}
  \/ /\ storage["offergo-demo-analysis"] = {}
     /\ storage["offergo-submission"] = {NotJson}

EffectThrows(storage) ==
  \/ DataThrows(storage)
  \/ /\ storage["offergo-ingest-parsed"] = {}
     /\ ExtractThrows(Readable(storage["offergo-workflow-eval"]))

\* typeof parsed?.backendOfferId === "number"
StoredOfferId(storage) ==
  {sub.backendOfferId : sub \in Readable(storage["offergo-submission"])}

\* generateDemoData: the stored analysis when there is one, else the
\* built-in sample, with one comparison row per offer of the stored
\* submission when that has more than one (the rows' scores past the first
\* are random and not kept here; the sample's texts are left out).
StoredFileNames(storage) ==
  IF storage["offergo-submission"] = {} THEN <<>>
  ELSE [i \in 1..Len(The(storage["offergo-submission"]).offers) |->
          The(storage["offergo-submission"]).offers[i].fileName]

SampleRows_Always(names) ==
  [i \in 1..Len(names) |-> [name |-> StripExt(names[i])]]

SampleRows(names) ==
  IF Len(names) > 1
    THEN [i \in 1..Len(names) |-> [name |-> StripExt(names[i])]]
    ELSE <<>>

SampleData(names) ==
  [overallScore |-> Num(87), grade |-> "A-", confidence |-> Num(82),
   recommendation |-> {"accept"}, comparisonData |-> SampleRows(names)]

generateDemoData(storage) ==
  IF storage["offergo-demo-analysis"] # {}
    THEN The(storage["offergo-demo-analysis"])
    ELSE SampleData(StoredFileNames(storage))

\* data.comparisonData.length > 1
TableShown_Any(d) == d # {} /\ Len(The(d).comparisonData) > 0

TableShown(d) == d # {} /\ Len(The(d).comparisonData) > 1

\* useState initial values of Results; an unmounted Results has no state.
FreshResults ==
  /\ data' = {}
  /\ backendOfferId' = {}
  /\ offerVsMarket' = {}
  /\ chat' = <<>>
  /\ input' = ""
  /\ typing' = FALSE

\* The state Results has once its mount effect has run on the storage given.
ResultsEffect(storage) ==
  /\ data' = {generateDemoData(storage)}
  /\ backendOfferId' = StoredOfferId(storage)
  /\ offerVsMarket' = OfferVsMarket(storage)
  /\ chat' = <<>>
  /\ input' = ""
  /\ typing' = FALSE

Orphaned_Shared(rs) == rs

\* A pending chat fetch outlives the Results instance that sent it.
Orphaned(rs) == {[r EXCEPT !.live = FALSE] : r \in rs}

\* ------------------------------------------------------------- navigation
\* useState initial values: a mounted Submission starts from these, and an
\* unmounted one has no state.
FreshComponent ==
  /\ offers' = <<>>
  /\ priorities' = DefaultPriorities
  /\ isSubmitting' = FALSE

\* navigate("/submit") from the landing page, the dashboard or the results.
OpenSubmission ==
  /\ UNCHANGED account
  /\ page \in {"other", "results"}
  /\ mountId < MaxMounts
  /\ page' = "submit"
  /\ mountId' = mountId + 1
  /\ FreshComponent
  /\ lastEvent' = Event("navigate", 0, NoResp)
  /\ sent' = <<>>
  /\ toast' = {}
  /\ UNCHANGED <<edits, sliderMoves, runs, runCount, sessionStorage>>
  /\ FreshResults
  /\ chatRuns' = Orphaned(chatRuns)
  /\ UNCHANGED chatCount

\* The Navbar of the Submission page: navigate("/") or navigate("/profile").
\* Pending fetches are not aborted.
LeaveSubmission ==
  /\ UNCHANGED account
  /\ page = "submit"
  /\ page' = "other"
  /\ FreshComponent
  /\ lastEvent' = Event("navigate", 0, NoResp)
  /\ sent' = <<>>
  /\ toast' = {}
  /\ UNCHANGED <<mountId, edits, sliderMoves, runs, runCount, sessionStorage>>
  /\ UNCHANGED <<results, chatVars>>

LeaveResults ==
  /\ UNCHANGED account
  /\ page = "results"
  /\ page' = "other"
  /\ lastEvent' = Event("navigate", 0, NoResp)
  /\ sent' = <<>>
  /\ toast' = {}
  /\ UNCHANGED <<mountId, component, edits, sliderMoves, runs, runCount,
                 sessionStorage>>
  /\ FreshResults
  /\ chatRuns' = Orphaned(chatRuns)
  /\ UNCHANGED chatCount

\* ------------------------------------------------------------- offer list
OfferIds(os) == {os[i].id : i \in 1..Len(os)}

HasCurrent(os) == \E i \in 1..Len(os) : os[i].isCurrent

\* crypto.randomUUID(): an identifier no offer of the list carries.
FreshId(os) == CHOOSE n \in 1..(Len(os) + 1) : n \notin OfferIds(os)

NewOfferIsCurrent(os) == Len(os) = 0

\* handleFileUpload: no file chosen returns at once.
handleFileUpload(chosen) ==
  /\ UNCHANGED account
  /\ page = "submit"
  /\ chosen = {} \/ edits < MaxEdits
  /\ edits' = IF chosen = {} THEN edits ELSE edits + 1
  /\ offers' =
       IF chosen = {} THEN offers
       ELSE Append(offers, [id |-> FreshId(offers), file |-> The(chosen),
                            isCurrent |-> NewOfferIsCurrent(offers)])
  /\ lastEvent' = Event("edit", 0, NoResp)
  /\ sent' = <<>>
  /\ toast' = {}
  /\ UNCHANGED <<page, mountId, priorities, sliderMoves, isSubmitting, runs, runCount,
                 sessionStorage>>
  /\ UNCHANGED <<results, chatVars>>

Filtered(os, id) == SelectSeq(os, LAMBDA o : o.id # id)

RemoveResult_NoPromote(os, id) == Filtered(os, id)

\* removeOffer: the first remaining offer becomes current when the current
\* one was removed.
RemoveResult(os, id) ==
  LET filtered == Filtered(os, id) IN
  IF Len(filtered) > 0 /\ ~HasCurrent(filtered)
    THEN [filtered EXCEPT ![1].isCurrent = TRUE]
    ELSE filtered

removeOffer(id) ==
  /\ UNCHANGED account
  /\ page = "submit"
  /\ id \in OfferIds(offers)
  /\ edits < MaxEdits
  /\ edits' = edits + 1
  /\ offers' = RemoveResult(offers, id)
  /\ lastEvent' = Event("edit", 0, NoResp)
  /\ sent' = <<>>
  /\ toast' = {}
  /\ UNCHANGED <<page, mountId, priorities, sliderMoves, isSubmitting, runs, runCount,
                 sessionStorage>>
  /\ UNCHANGED <<results, chatVars>>

SelectResult(os, id) ==
  [i \in 1..Len(os) |-> [os[i] EXCEPT !.isCurrent = (os[i].id = id)]]

selectCurrent(id) ==
  /\ UNCHANGED account
  /\ page = "submit"
  /\ id \in OfferIds(offers)
  /\ edits < MaxEdits
  /\ edits' = IF SelectResult(offers, id) = offers THEN edits ELSE edits + 1
  /\ offers' = SelectResult(offers, id)
  /\ lastEvent' = Event("edit", 0, NoResp)
  /\ sent' = <<>>
  /\ toast' = {}
  /\ UNCHANGED <<page, mountId, priorities, sliderMoves, isSubmitting, runs, runCount,
                 sessionStorage>>
  /\ UNCHANGED <<results, chatVars>>

\* Slider onValueChange: one rating takes another value of the scale.
setPriority(key, v) ==
  /\ UNCHANGED account
  /\ page = "submit"
  /\ sliderMoves < MaxSliderMoves
  /\ v # priorities[key]
  /\ priorities' = [priorities EXCEPT ![key] = v]
  /\ sliderMoves' = sliderMoves + 1
  /\ lastEvent' = Event("edit", 0, NoResp)
  /\ sent' = <<>>
  /\ toast' = {}
  /\ UNCHANGED <<page, mountId, offers, edits, isSubmitting, runs, runCount,
                 sessionStorage>>
  /\ UNCHANGED <<results, chatVars>>

\* ------------------------------------------------------------ handleSubmit
Toast(title, description) == {[title |-> title, description |-> description]}

UploadRequired ==
  Toast("Upload required", "Please upload at least one offer letter.")
SelectionRequired ==
  Toast("Selection required", "Please select a current offer.")
PdfRequired ==
  Toast("PDF required", "Please upload a PDF offer letter.")

\* offers.find((o) => o.isCurrent)
CurrentOffer_First(os) == os[1]

CurrentOffer(os) == os[CHOOSE i \in 1..Len(os) :
                         os[i].isCurrent /\ \A j \in 1..(i - 1) : ~os[j].isCurrent]

Request(run, kind, offerId, body) ==
  [run |-> run, kind |-> kind, offer_id |-> offerId, body |-> body]

\* The Analyze Offer button: disabled={isSubmitting}.
ButtonDisabled == isSubmitting

Validation_NoPdfCheck(os) ==
  IF Len(os) = 0 THEN UploadRequired
  ELSE IF ~HasCurrent(os) THEN SelectionRequired
  ELSE {}

\* The three local checks of handleSubmit: the notification raised, or {}
\* when the submission may start.
Validation(os) ==
  IF Len(os) = 0 THEN UploadRequired
  ELSE IF ~HasCurrent(os) THEN SelectionRequired
  ELSE IF ~IsPdfName(CurrentOffer(os).file) THEN PdfRequired
  ELSE {}

\* A click on Analyze Offer.  Up to the first await the handler runs in one
\* step: it raises a validation notification, or sets isSubmitting and
\* issues the ingest request with the file and the ratings of this render.
handleSubmit ==
  /\ UNCHANGED account
  /\ page = "submit"
  /\ ~ButtonDisabled
  /\ lastEvent' = Event("handleSubmit", 0, NoResp)
  /\ IF Validation(offers) # {}
       THEN /\ toast' = Validation(offers)
            /\ sent' = <<>>
            /\ UNCHANGED <<page, mountId, component, edits, sliderMoves, runs,
                           runCount, sessionStorage>>
       ELSE /\ runCount < MaxRuns
            /\ runCount' = runCount + 1
            /\ isSubmitting' = TRUE
            /\ runs' = runs \cup
                 {[id |-> runCount + 1, inst |-> mountId, pc |-> "ingest",
                   offers |-> offers, priorities |-> priorities,
                   currentOffer |-> CurrentOffer(offers),
                   ingestJson |-> NoIngest, evalJson |-> NoEval]}
            /\ sent' = <<Request(runCount + 1, "ingest", 0,
                               {[file |-> CurrentOffer(offers).file,
                                 priorities |-> priorities]})>>
            /\ toast' = {}
            /\ UNCHANGED <<page, mountId, offers, priorities, edits, sliderMoves,
                           sessionStorage>>
  /\ UNCHANGED <<results, chatVars>>

Fail_NoReset(r, message) ==
  /\ toast' = Toast("Analysis failed", message)
  /\ isSubmitting' = isSubmitting
  /\ runs' = runs \ {r}

\* catch + finally: the notification, then setIsSubmitting(false), which
\* only reaches the component instance that started the run if it is still
\* mounted.
Fail(r, message) ==
  /\ toast' = Toast("Analysis failed", message)
  /\ isSubmitting' =
       IF page = "submit" /\ r.inst = mountId THEN FALSE ELSE isSubmitting
  /\ runs' = runs \ {r}

HasOfferId(json) == json.offer_id # {} /\ json.offer_id # {0}

\* The ingest fetch settles.
IngestResponds(r, resp) ==
  /\ UNCHANGED account
  /\ r \in runs
  /\ r.pc = "ingest"
  /\ lastEvent' = Event("IngestResponds", r.id, Meta(resp, resp.json.offer_id))
  /\ IF Failed(resp)
       THEN /\ Fail(r, ErrorMessage(resp))
            /\ sent' = <<>>
       ELSE IF ~HasOfferId(resp.json)
       THEN /\ Fail(r, NoOfferIdMessage)
            /\ sent' = <<>>
       ELSE /\ runs' = (runs \ {r}) \cup
                 {[r EXCEPT !.pc = "evaluate", !.ingestJson = resp.json]}
            /\ sent' = <<Request(r.id, "evaluate",
                               The(resp.json.offer_id), {})>>
            /\ toast' = {}
            /\ UNCHANGED isSubmitting
  /\ UNCHANGED <<page, mountId, offers, priorities, edits, sliderMoves, runCount,
                 sessionStorage>>
  /\ UNCHANGED <<results, chatVars>>

\* The evaluate fetch settles.
EvalResponds(r, resp) ==
  /\ UNCHANGED account
  /\ r \in runs
  /\ r.pc = "evaluate"
  /\ lastEvent' = Event("EvalResponds", r.id, Meta(resp, {}))
  /\ IF Failed(resp)
       THEN /\ Fail(r, ErrorMessage(resp))
            /\ sent' = <<>>
       ELSE /\ runs' = (runs \ {r}) \cup
                 {[r EXCEPT !.pc = "market", !.evalJson = resp.json]}
            /\ sent' = <<Request(r.id, "market-snapshot",
                               The(r.ingestJson.offer_id), {})>>
            /\ toast' = {}
            /\ UNCHANGED isSubmitting
  /\ UNCHANGED <<page, mountId, offers, priorities, edits, sliderMoves, runCount,
                 sessionStorage>>
  /\ UNCHANGED <<results, chatVars>>

Submission_Live(r) ==
  [offers |-> [i \in 1..Len(offers) |->
                 [id |-> offers[i].id, fileName |-> offers[i].file,
                  isCurrent |-> offers[i].isCurrent]],
   priorities |-> priorities,
   backendOfferId |-> The(r.ingestJson.offer_id)]

\* What handleSubmit stores under "offergo-submission": offers and
\* priorities are the constants of the render whose handler was clicked.
Submission(r) ==
  [offers |-> [i \in 1..Len(r.offers) |->
                 [id |-> r.offers[i].id, fileName |-> r.offers[i].file,
                  isCurrent |-> r.offers[i].isCurrent]],
   priorities |-> r.priorities,
   backendOfferId |-> The(r.ingestJson.offer_id)]

EscapesInnerTry_NoCatch(resp) == resp.threw \/ (resp.ok /\ ~resp.jsonOk)

\* The inner try / catch {} around the market-snapshot fetch swallows a
\* rejected fetch and an unreadable body; nothing reaches the outer catch.
EscapesInnerTry(resp) == FALSE

\* marketSnapshot stays null unless the response is 2xx with a JSON body.
MarketSnapshot(resp) == IF Failed(resp) THEN {} ELSE {resp.json}

\* The five setItem calls of a run whose normaliser returned.
StoreAll(r, snapshot) ==
  [sessionStorage EXCEPT
     !["offergo-submission"] = {Submission(r)},
     !["offergo-demo-analysis"] =
        {JsonAnalysis(mapEvalToAnalysis(r.evalJson, r.priorities,
                                        r.currentOffer.file))},
     !["offergo-workflow-eval"] = {r.evalJson},
     !["offergo-ingest-parsed"] =
        IF r.ingestJson.parsed = {} THEN {EmptyObject}
        ELSE r.ingestJson.parsed,
     !["offergo-market-snapshot"] = IF snapshot = {} THEN @ ELSE snapshot]

\* The market-snapshot fetch settles; whatever its outcome the handler goes
\* on: it stores the submission, normalises the evaluation (which may throw
\* after that first write), stores the rest, and navigates.
MarketResponds(r, resp) ==
  /\ UNCHANGED account
  /\ r \in runs
  /\ r.pc = "market"
  /\ lastEvent' = Event("MarketResponds", r.id, Meta(resp, {}))
  /\ IF EscapesInnerTry(resp)
       THEN /\ Fail(r, ErrorMessage(resp))
            /\ UNCHANGED <<page, offers, priorities, sessionStorage, results>>
       ELSE IF mapEvalThrows(r.evalJson)
       THEN /\ sessionStorage' =
                 [sessionStorage EXCEPT
                    !["offergo-submission"] = {Submission(r)}]
            /\ Fail(r, TypeErrorMessage)
            /\ UNCHANGED <<page, offers, priorities, results>>
       ELSE /\ sessionStorage' = StoreAll(r, MarketSnapshot(resp))
            /\ page' = "results"
            /\ IF page = "results"
                 THEN UNCHANGED <<component, results>>
                 ELSE FreshComponent /\ ResultsEffect(sessionStorage')
            /\ runs' = runs \ {r}
            /\ toast' = {}
  /\ sent' = <<>>
  /\ UNCHANGED <<mountId, edits, sliderMoves, runCount>>
  /\ UNCHANGED chatVars

\* The slider changes tried: a rating of the 1..5 scale for one key.
SliderInputs == {<<"financial", PriorityMax>>, <<"alignment", PriorityMin>>}

\* ------------------------------------------------------------------- next
Next ==
  \/ OpenSubmission
  \/ LeaveSubmission
  \/ LeaveResults
  \/ \E chosen \in {{}} \cup {{f} : f \in FileNames} : handleFileUpload(chosen)
  \/ \E id \in OfferIds(offers) : removeOffer(id)
  \/ \E id \in OfferIds(offers) : selectCurrent(id)
  \/ \E m \in SliderInputs : setPriority(m[1], m[2])
  \/ handleSubmit
  \/ \E r \in runs, resp \in IngestResponses : IngestResponds(r, resp)
  \/ \E r \in runs, resp \in EvalResponses : EvalResponds(r, resp)
  \/ \E r \in runs, resp \in MarketResponses : MarketResponds(r, resp)

Spec == Init /\ [][Next]_vars

\* --------------------------------------------- the normaliser on its own
\* SpecNorm starts where a run has received its evaluation and waits for the
\* market snapshot, with the ratings and the evaluation drawn from the sets
\* below, and takes the step that normalises and stores it.
AllPriorities ==
  [financial : PriorityMin..PriorityMax, career : PriorityMin..PriorityMax,
   lifestyle : PriorityMin..PriorityMax, alignment : PriorityMin..PriorityMax]

SamplePriorities ==
  {DefaultPriorities,
   [financial |-> 5, career |-> 1, lifestyle |-> 4, alignment |-> 2]}

\* Raw scores from -1/2 to 10 1/2 and raw confidences from -1/ConfDen to
\* 1 + 1/ConfDen, so both clamps are crossed on both sides.
NormScores ==
  {Num(k) : k \in (0 - ScoreDen \div 2)..(10 * ScoreDen + ScoreDen \div 2)}
NormConfidences == {Num(k) : k \in (0 - 1)..(ConfDen + 1)}
Recommendations == {{"accept"}, {"renegotiate"}, {"needs_more_info"}}
RiskList(n) == [i \in 1..n |-> "risk"]

NormEval(score, confidence, recommendation, n) ==
  [EvalRenegotiate EXCEPT !.score = score, !.confidence = confidence,
                          !.recommendation = recommendation,
                          !.risks = {RiskList(n)}]

\* Every score with two risk inputs; every risk input with two scores.
NormEvals(prio) ==
  {NormEval(sc, Num(ConfDen - 1), {"accept"}, 1) : sc \in NormScores}
  \cup {NormEval(sc, Num(1), {"renegotiate"}, MaxRisks) : sc \in NormScores}
  \cup (IF prio \in SamplePriorities
          THEN {NormEval(sc, c, rec, n) :
                  sc \in {Num(1), Num(10 * ScoreDen - 1)},
                  c \in NormConfidences, rec \in Recommendations,
                  n \in 0..MaxRisks}
          ELSE {})

PdfOffer == [id |-> 1, file |-> <<"B", ".", "P", "D", "F">>, isCurrent |-> TRUE]

NormRun(prio, evalJson) ==
  [id |-> 1, inst |-> 1, pc |-> "market", offers |-> <<PdfOffer>>,
   priorities |-> prio, currentOffer |-> PdfOffer,
   ingestJson |-> [offer_id |-> {1}, parsed |-> {ParsedFields}],
   evalJson |-> evalJson]

InitNorm ==
  /\ page = "submit"
  /\ mountId = 1
  /\ offers = <<PdfOffer>>
  /\ priorities \in AllPriorities
  /\ edits = 1
  /\ sliderMoves = Cardinality({k \in Keys : priorities[k] # PriorityDefault})
  /\ isSubmitting = TRUE
  /\ runs \in {{NormRun(priorities, e)} : e \in NormEvals(priorities)}
  /\ runCount = 1
  /\ sessionStorage = EmptyStorage
  /\ toast = {}
  /\ sent = <<Request(1, "market-snapshot", 1, {})>>
  /\ lastEvent = Event("EvalResponds", 1,
                       [NoResp EXCEPT !.ok = TRUE, !.jsonOk = TRUE])
  /\ NoResults
  /\ FirstLoad

NormResponses == {resp \in MarketResponses : ~Failed(resp)}

NextNorm == \E r \in runs, resp \in NormResponses : MarketResponds(r, resp)

SpecNorm == InitNorm /\ [][NextNorm]_vars

\* ------------------------------------- the normaliser on lists of any length
\* SpecLists is SpecNorm with the evaluation's key drivers and negotiation
\* targets drawn from the lists below instead of its numbers.
MaxDrivers == 8
MaxTargets == 3

Impacts == {"positive", "negative", "neutral"}

DriverLabel(i) == "driver " \o ToString(i)

DriverLists ==
  {[i \in 1..Len(f) |-> Driver(DriverLabel(i), f[i])] :
     f \in UNION {[1..n -> Impacts] : n \in 0..MaxDrivers}}

TargetPool ==
  {Target("Base", "+10%", "below market"), Target("Equity", "refresh", "cliff")}

TargetLists == UNION {[1..n -> TargetPool] : n \in 0..MaxTargets}

ListEvals ==
  {[EvalRenegotiate EXCEPT !.key_drivers = {ds}] : ds \in DriverLists}
  \cup {[EvalAccept EXCEPT !.negotiation_targets = {ts}] : ts \in TargetLists}

InitLists ==
  /\ page = "submit"
  /\ mountId = 1
  /\ offers = <<PdfOffer>>
  /\ priorities = DefaultPriorities
  /\ edits = 1
  /\ sliderMoves = 0
  /\ isSubmitting = TRUE
  /\ runs \in {{NormRun(priorities, e)} : e \in ListEvals}
  /\ runCount = 1
  /\ sessionStorage = EmptyStorage
  /\ toast = {}
  /\ sent = <<Request(1, "market-snapshot", 1, {})>>
  /\ lastEvent = Event("EvalResponds", 1,
                       [NoResp EXCEPT !.ok = TRUE, !.jsonOk = TRUE])
  /\ NoResults
  /\ FirstLoad

SpecLists == InitLists /\ [][NextNorm]_vars

\* --------------------------------------------- the results page on its own
\* SpecResults starts on another page with session storage holding what an
\* earlier visit may have left: an evaluation or none, parsed fields or
\* none, with the texts and amounts below.  Its steps open the results page,
\* which runs the mount effect, and leave it.
MaxResultDrivers == 2

ResultTexts ==
  {"summary A", "You were offered $1,200 in total",
   "market median is 1,500", "offer of 1,000 vs market 1,100",
   "market (-5% yoy) at 900", "market, strong and stable", "offer: 0",
   "market 0.40", "offered, roughly, 900"}

ResultLabels ==
  {"Strong base", "market median is 1,500", "offer: 0",
   "market, strong and stable", "offer of 1,000 vs market 1,100"}

ResultDrivers ==
  {[i \in 1..Len(f) |-> Driver(f[i], "neutral")] :
     f \in UNION {[1..n -> ResultLabels] : n \in 0..MaxResultDrivers}}

ResultEvals ==
  {[EvalAccept EXCEPT !.recommendation = rec, !.key_drivers = ds,
                      !.one_paragraph_summary = sm] :
     rec \in Recommendations,
     ds \in {{}} \cup {{d} : d \in ResultDrivers},
     sm \in {{}} \cup {{t} : t \in ResultTexts}}

ResultParsed ==
  [base_salary : {Undefined, Null, Num(0), Num(1), Num(1000), Num(0 - 500)},
   bonus_target : {Null, Num(10), Num(15)},
   equity_amount : {Undefined, Num(0), Num(250)}]

ResultStorages ==
  {[EmptyStorage EXCEPT !["offergo-workflow-eval"] = e,
                        !["offergo-ingest-parsed"] = p] :
     e \in {{}} \cup {{x} : x \in ResultEvals},
     p \in {{}} \cup {{x} : x \in ResultParsed}}

InitResults ==
  /\ page = "other"
  /\ mountId = 0
  /\ offers = <<>>
  /\ priorities = DefaultPriorities
  /\ edits = 0
  /\ sliderMoves = 0
  /\ isSubmitting = FALSE
  /\ runs = {}
  /\ runCount = 0
  /\ sessionStorage \in ResultStorages
  /\ toast = {}
  /\ sent = <<>>
  /\ lastEvent = Event("init", 0, NoResp)
  /\ NoResults
  /\ FirstLoad

\* navigate("/results") from another page: Results mounts and its mount
\* effect runs; an error that escapes the effect takes the page down.
OpenResults ==
  /\ UNCHANGED account
  /\ page = "other"
  /\ page' = IF EffectThrows(sessionStorage) THEN "blank" ELSE "results"
  /\ IF EffectThrows(sessionStorage) THEN FreshResults
     ELSE ResultsEffect(sessionStorage)
  /\ lastEvent' = Event("navigate", 0, NoResp)
  /\ sent' = <<>>
  /\ toast' = {}
  /\ UNCHANGED <<mountId, component, edits, sliderMoves, runs, runCount,
                 sessionStorage, chatVars>>

NextResults == OpenResults \/ LeaveResults

SpecResults == InitResults /\ [][NextResults]_vars

\* ------------------------------------------------------ results page: chat
MaxChats == 3

\* The texts typed into the chat input, and String.prototype.trim on them.
ChatInputs == {"", "  ", "Is the equity fair?", " Should I counter? "}

trim(s) ==
  CASE s = "  " -> ""
    [] s = " Should I counter? " -> "Should I counter?"
    [] OTHER -> s

Msg(role, content) == [role |-> role, content |-> content]

MissingContext ==
  "Missing offer context for chat. Re-run analysis from Submit page."

\* The catch block of sendMessage: the transcript entry and the notification.
Unavailable(msg) ==
  Msg("ai", {"I couldn't reach Nemotron chat right now. " \o msg})

ChatToast(msg) ==
  {[title |-> "Nemotron chat unavailable", description |-> msg,
    variant |-> "destructive"]}

\* if (!backendOfferId): null and 0 are both falsy.
NoOfferContext_Never(id) == FALSE

NoOfferContext(id) == id = {} \/ id = {0}

\* The body of POST /offers/{id}/chat, and the answers it may bring;
\* payload.answer of a body without the field is undefined.
NoAnswer == [answer |-> {}]

ChatJsons == {[answer |-> {"Ask for 10% more."}], NoAnswer}

ChatResponses == Responses(ChatJsons, NoAnswer, "chat rejected")

\* A chat request in flight: the instance that sent it is mounted or gone.
ChatRun(id, text) == [id |-> id, text |-> text, live |-> TRUE]

\* onChange of the chat input.
setInput(value) ==
  /\ UNCHANGED account
  /\ page = "results"
  /\ value # input
  /\ input' = value
  /\ lastEvent' = Event("setInput", 0, NoResp)
  /\ sent' = <<>>
  /\ toast' = {}
  /\ UNCHANGED <<page, mountId, component, edits, sliderMoves, runs,
                 runCount, sessionStorage, backendOfferId, offerVsMarket, data,
                 chat, typing, chatVars>>

\* The send button: disabled={!input.trim() || typing}.  Enter in the input
\* submits the form through that button, so it is blocked with it.
SendDisabled_TextOnly == trim(input) = ""

SendDisabled == trim(input) = "" \/ typing

\* Submitting the chat form.  sendMessage runs to its first await in one
\* step: the user's message is appended and the input cleared; without an
\* offer id the throw, the catch and the finally all run before any await.
sendMessage ==
  /\ UNCHANGED account
  /\ page = "results"
  /\ ~SendDisabled
  /\ chatCount < MaxChats
  /\ trim(input) # ""
  /\ chatCount' = chatCount + 1
  /\ input' = ""
  /\ lastEvent' = Event("sendMessage", chatCount + 1, NoResp)
  /\ IF NoOfferContext(backendOfferId)
       THEN /\ chat' = chat \o <<Msg("user", {trim(input)}),
                                 Unavailable(MissingContext)>>
            /\ toast' = ChatToast(MissingContext)
            /\ typing' = FALSE
            /\ sent' = <<>>
            /\ UNCHANGED chatRuns
       ELSE /\ chat' = Append(chat, Msg("user", {trim(input)}))
            /\ toast' = {}
            /\ typing' = TRUE
            /\ sent' = <<Request(chatCount + 1, "chat", backendOfferId,
                                 trim(input))>>
            /\ chatRuns' = chatRuns \cup {ChatRun(chatCount + 1, trim(input))}
  /\ UNCHANGED <<page, mountId, component, edits, sliderMoves, runs,
                 runCount, sessionStorage, backendOfferId, offerVsMarket,
                 data>>

\* What the response appends: payload.answer, or the catch block's entry.
ChatReply_Silent(resp) ==
  IF Failed(resp) THEN <<>> ELSE <<Msg("ai", resp.json.answer)>>

ChatReply(resp) ==
  IF Failed(resp) THEN <<Unavailable(ErrorMessage(resp))>>
  ELSE <<Msg("ai", resp.json.answer)>>

ChatAlert(resp) ==
  IF Failed(resp) THEN ChatToast(ErrorMessage(resp)) ELSE {}

\* finally { setTyping(false) }
TypingAfter_Stuck(resp) == Failed(resp)

TypingAfter(resp) == FALSE

\* The chat fetch settles.  The state setters of an instance that is gone
\* do nothing; the notification is raised all the same.
ChatResponds(r, resp) ==
  /\ UNCHANGED account
  /\ r \in chatRuns
  /\ chatRuns' = chatRuns \ {r}
  /\ lastEvent' = Event("ChatResponds", r.id, Meta(resp, {}))
  /\ toast' = ChatAlert(resp)
  /\ sent' = <<>>
  /\ IF r.live
       THEN /\ chat' = chat \o ChatReply(resp)
            /\ typing' = TypingAfter(resp)
       ELSE UNCHANGED <<chat, typing>>
  /\ UNCHANGED <<page, mountId, component, edits, sliderMoves, runs,
                 runCount, sessionStorage, backendOfferId, offerVsMarket, data,
                 input, chatCount>>

\* SpecChat starts on another page of a tab whose session storage holds a
\* submission with its offer id, or none (the results page opened on its
\* demonstration data).
ChatSubmission ==
  [offers |-> <<[id |-> 1, fileName |-> <<"B", ".", "P", "D", "F">>,
                 isCurrent |-> TRUE]>>,
   priorities |-> DefaultPriorities,
   backendOfferId |-> 2]

ChatStorages ==
  {EmptyStorage,
   [EmptyStorage EXCEPT !["offergo-submission"] = {ChatSubmission}]}

InitChat ==
  /\ page = "other"
  /\ mountId = 0
  /\ offers = <<>>
  /\ priorities = DefaultPriorities
  /\ edits = 0
  /\ sliderMoves = 0
  /\ isSubmitting = FALSE
  /\ runs = {}
  /\ runCount = 0
  /\ sessionStorage \in ChatStorages
  /\ toast = {}
  /\ sent = <<>>
  /\ lastEvent = Event("init", 0, NoResp)
  /\ NoResults
  /\ FirstLoad

NextChat ==
  \/ OpenResults
  \/ LeaveResults
  \/ \E value \in ChatInputs : setInput(value)
  \/ sendMessage
  \/ \E r \in chatRuns, resp \in ChatResponses : ChatResponds(r, resp)

SpecChat == InitChat /\ [][NextChat]_vars

\* A fetch promise settles: the browser resolves it with the response or
\* rejects it on a network error, so no chat request stays pending forever.
ChatSettles(id) ==
  \E r \in chatRuns : \E resp \in ChatResponses :
    r.id = id /\ ChatResponds(r, resp)

SpecChatFair ==
  SpecChat /\ \A id \in 1..MaxChats : WF_vars(ChatSettles(id))

\* ---------------------------------------------------- profile and account
\* loadProfile: the stored profile, or a copy of the empty one when nothing
\* is stored or the stored text cannot be parsed.
loadProfile_Strict(stored) ==
  IF stored = {} THEN emptyProfile ELSE The(stored)

loadProfile(stored) ==
  IF stored = {} \/ stored = {NotJson} THEN emptyProfile ELSE The(stored)

\* { ...prev, ...patch }
Merge(prev, patch) ==
  [k \in DOMAIN prev \cup DOMAIN patch |->
     IF k \in DOMAIN patch THEN patch[k] ELSE prev[k]]

\* useProfile mounting with a page: the state starts from loadProfile and
\* the effect stores it.
MountProfile(stored) ==
  /\ profile' = loadProfile(stored)
  /\ localStorage' = {loadProfile(stored)}

\* The fields the profile form edits, as patches of updateProfile.
Patches ==
  { [name |-> "Alex Johnson"], [name |-> ""], [city |-> "New York"],
    [email |-> "alex@example.com"] }

\* navigate("/profile"): ProfileSetup mounts.
OpenProfile ==
  /\ page = "other"
  /\ page' = "profile"
  /\ MountProfile(localStorage)
  /\ lastEvent' = Event("navigate", 0, NoResp)
  /\ sent' = <<>>
  /\ toast' = {}
  /\ UNCHANGED <<mountId, component, edits, sliderMoves, runs, runCount,
                 sessionStorage, results, chatVars, loginError>>

\* updateProfile(patch): the next profile is stored inside the state update.
updateProfile_NoWrite(prev, patch) == {prev}

updateProfile(prev, patch) == {Merge(prev, patch)}

ChangeField(patch) ==
  /\ page = "profile"
  /\ Merge(profile, patch) # profile
  /\ profile' = Merge(profile, patch)
  /\ localStorage' = updateProfile(profile, patch)
  /\ lastEvent' = Event("updateProfile", 0, NoResp)
  /\ sent' = <<>>
  /\ toast' = {}
  /\ UNCHANGED <<page, mountId, component, edits, sliderMoves, runs, runCount,
                 sessionStorage, results, chatVars, loginError>>

\* completeProfile: { ...prev, completed: true }
completeProfile(prev) == [prev EXCEPT !.completed = TRUE]

\* handleComplete of ProfileSetup: completeProfile(), then
\* navigate("/dashboard"), whose useProfile loads what was just stored.
handleComplete ==
  /\ page = "profile"
  /\ page' = "other"
  /\ MountProfile({completeProfile(profile)})
  /\ lastEvent' = Event("handleComplete", 0, NoResp)
  /\ sent' = <<>>
  /\ toast' = {}
  /\ UNCHANGED <<mountId, component, edits, sliderMoves, runs, runCount,
                 sessionStorage, results, chatVars, loginError>>

\* The logo of the navigation bar on the profile page: navigate("/").
LeaveProfile ==
  /\ page = "profile"
  /\ page' = "other"
  /\ MountProfile(localStorage)
  /\ lastEvent' = Event("navigate", 0, NoResp)
  /\ sent' = <<>>
  /\ toast' = {}
  /\ UNCHANGED <<mountId, component, edits, sliderMoves, runs, runCount,
                 sessionStorage, results, chatVars, loginError>>

\* loginDemoUser
profileData ==
  [name |-> "Bob Wang", city |-> "New York", country |-> "USA",
   nationality |-> "Chinese", monthlyExpenses |-> "3200",
   ownedAsset |-> "40000", debts |-> "10000 @ 5%",
   resumeName |-> {"resume_bob_wang.pdf"}, completed |-> TRUE]

DemoMarker == {"demo-bob"}

\* The pairs typed into the log-in form (both fields are required).
Emails == {"offergo@gmail.com", "OfferGo@gmail.com", "bob@example.com"}

Passwords == {"123456", "12345", "123456 "}

\* email === "offergo@gmail.com" && password === "123456"
Accepted_EmailOnly(email, password) == email = "offergo@gmail.com"

Accepted(email, password) ==
  email = "offergo@gmail.com" /\ password = "123456"

\* A full page load: every component state is gone, pending fetches are
\* dropped with the document, and the page shown at "/" mounts useProfile.
Reload(stored) ==
  /\ page' = "other"
  /\ FreshComponent
  /\ FreshResults
  /\ runs' = {}
  /\ chatRuns' = {}
  /\ MountProfile(stored)
  /\ UNCHANGED <<mountId, edits, sliderMoves, runCount, chatCount>>

\* DemoLoginModal.handleSubmit, offered by the navigation bar while the
\* profile is not completed: with the accepted pair loginDemoUser(),
\* navigate("/") and window.location.reload(); otherwise the error text.
login(email, password) ==
  /\ page \in {"other", "profile", "submit"}
  /\ ~profile.completed
  /\ lastEvent' = Event("login", 0, NoResp)
  /\ sent' = <<>>
  /\ toast' = {}
  /\ IF Accepted(email, password)
       THEN /\ sessionStorage' =
                 [sessionStorage EXCEPT !["offergo-demo-user"] = DemoMarker]
            /\ Reload({profileData})
            /\ loginError' = ""
       ELSE /\ loginError' = "Invalid email or password."
            /\ UNCHANGED <<page, mountId, component, edits, sliderMoves, runs,
                           runCount, sessionStorage, results, chatVars,
                           localStorage, profile>>

\* logoutDemoUser: the keys it removes.
LogoutKeys_All == SessionKeys

LogoutKeys ==
  {"offergo-submission", "offergo-demo-analysis", "offergo-demo-user"}

Removed(storage, keys) ==
  [k \in DOMAIN storage |-> IF k \in keys THEN {} ELSE storage[k]]

\* handleLogout of the navigation bar's menu, shown while the profile is
\* completed: logoutDemoUser(), then window.location.href = "/".
handleLogout ==
  /\ page \in {"other", "profile", "submit"}
  /\ profile.completed
  /\ sessionStorage' = Removed(sessionStorage, LogoutKeys)
  /\ Reload({})
  /\ loginError' = ""
  /\ lastEvent' = Event("logout", 0, NoResp)
  /\ sent' = <<>>
  /\ toast' = {}

\* SpecAccount starts on a first visit or after a submission has left its
\* five values in the session storage, and follows the profile form, the
\* log-in form, the log-out item and visits of the results page.
AccountFile == <<"B", ".", "P", "D", "F">>

AccountStorage ==
  [EmptyStorage EXCEPT
     !["offergo-submission"] = {ChatSubmission},
     !["offergo-demo-analysis"] =
        {JsonAnalysis(mapEvalToAnalysis(EvalAccept, DefaultPriorities,
                                        AccountFile))},
     !["offergo-workflow-eval"] = {EvalAccept},
     !["offergo-ingest-parsed"] = {ParsedFields},
     !["offergo-market-snapshot"] = {Snapshot1}]

AccountStorages ==
  {EmptyStorage, AccountStorage,
   [AccountStorage EXCEPT !["offergo-market-snapshot"] = {}]}

InitAccount ==
  /\ page = "other"
  /\ mountId = 0
  /\ offers = <<>>
  /\ priorities = DefaultPriorities
  /\ edits = 0
  /\ sliderMoves = 0
  /\ isSubmitting = FALSE
  /\ runs = {}
  /\ runCount = 0
  /\ sessionStorage \in AccountStorages
  /\ toast = {}
  /\ sent = <<>>
  /\ lastEvent = Event("init", 0, NoResp)
  /\ NoResults
  /\ FirstLoad

NextAccount ==
  \/ OpenProfile
  \/ LeaveProfile
  \/ \E patch \in Patches : ChangeField(patch)
  \/ handleComplete
  \/ \E email \in Emails, password \in Passwords : login(email, password)
  \/ handleLogout
  \/ OpenResults
  \/ LeaveResults

SpecAccount == InitAccount /\ [][NextAccount]_vars

\* ------------------------------------------------------- stored state read
\* SpecStart starts with each entry the pages read at start-up absent, not
\* JSON, or as a submission wrote it, and mounts the results page and the
\* profile page on it.
Entries(value) == {{}, {NotJson}, {value}}

StartStorages ==
  {[EmptyStorage EXCEPT !["offergo-submission"] = sub,
                        !["offergo-demo-analysis"] = ana,
                        !["offergo-workflow-eval"] = ev,
                        !["offergo-ingest-parsed"] = par] :
     sub \in Entries(ChatSubmission),
     ana \in Entries(The(AccountStorage["offergo-demo-analysis"])),
     ev \in Entries(EvalAccept),
     par \in Entries(ParsedFields)}

InitStart ==
  /\ page = "other"
  /\ mountId = 0
  /\ offers = <<>>
  /\ priorities = DefaultPriorities
  /\ edits = 0
  /\ sliderMoves = 0
  /\ isSubmitting = FALSE
  /\ runs = {}
  /\ runCount = 0
  /\ sessionStorage \in StartStorages
  /\ toast = {}
  /\ sent = <<>>
  /\ lastEvent = Event("init", 0, NoResp)
  /\ NoResults
  /\ localStorage \in Entries(profileData)
  /\ profile = loadProfile(localStorage)
  /\ loginError = ""

NextStart == OpenResults \/ LeaveResults \/ OpenProfile \/ LeaveProfile

SpecStart == InitStart /\ [][NextStart]_vars

\* ================================================================ claims
CurrentIndexes(os) == {i \in 1..Len(os) : os[i].isCurrent}

\* C1: whatever was added, removed or selected, a non-empty offer list has
\* exactly one entry with isCurrent = TRUE, and an empty one has none.
C1_ExactlyOneCurrent ==
  Cardinality(CurrentIndexes(offers)) = (IF Len(offers) = 0 THEN 0 ELSE 1)

\* The current offer was removed and the remaining one took its place.
C1_Witness ==
  /\ lastEvent.type = "edit"
  /\ Len(offers) = 1
  /\ offers[1].id = 2
  /\ offers[1].isCurrent

EndsInDotPdfAnyCase(name) ==
  /\ Len(name) >= 4
  /\ name[Len(name) - 3] = "."
  /\ name[Len(name) - 2] \in {"p", "P"}
  /\ name[Len(name) - 1] \in {"d", "D"}
  /\ name[Len(name)] \in {"f", "F"}

C2_Blocked(os) ==
  \/ Len(os) = 0
  \/ CurrentIndexes(os) = {}
  \/ \E i \in CurrentIndexes(os) :
       /\ \A j \in CurrentIndexes(os) : i <= j
       /\ ~EndsInDotPdfAnyCase(os[i].file)

ValidationTitles == {"Upload required", "Selection required", "PDF required"}

\* C2: a click on Analyze with an empty list, with no current offer or with
\* a current file not named *.pdf (in any case) issues no request, starts no
\* run, leaves isSubmitting false, session storage and the page untouched,
\* and raises a validation notification.
C2_SubmitGuard ==
  [][ (lastEvent'.type = "handleSubmit" /\ C2_Blocked(offers)) =>
        /\ sent' = <<>>
        /\ runs' = runs
        /\ ~isSubmitting /\ ~isSubmitting'
        /\ sessionStorage' = sessionStorage
        /\ page' = page
        /\ toast' # {}
        /\ \A t \in toast' : t.title \in ValidationTitles ]_vars

\* Analyze was clicked with a current offer that is not a PDF.
C2_Witness ==
  /\ lastEvent.type = "handleSubmit"
  /\ Len(offers) > 0
  /\ toast = PdfRequired
  /\ ~isSubmitting
  /\ runs = {}

C3_IsFailure(ev) ==
  /\ ev.type \in {"IngestResponds", "EvalResponds"}
  /\ \/ ev.resp.threw
     \/ ~ev.resp.ok
     \/ ~ev.resp.jsonOk
     \/ ev.type = "IngestResponds" /\ ev.resp.offer_id \in {{}, {0}}

C3_Message(ev) ==
  IF ev.resp.threw THEN ev.resp.message
  ELSE IF ~ev.resp.ok THEN ev.resp.text
  ELSE IF ~ev.resp.jsonOk THEN ev.resp.message
  ELSE "Ingest succeeded but no offer_id was returned."

\* C3: when the ingest or the evaluate call of a run fails, that step raises
\* 'Analysis failed' with the error's message, does not navigate, issues no
\* further request, ends the run, and resets isSubmitting of the page that
\* started it; and an ingest request is only ever issued by a click.
C3_FailureIsTerminal ==
  [][ /\ C3_IsFailure(lastEvent') =>
           /\ toast' = {[title |-> "Analysis failed",
                         description |-> C3_Message(lastEvent')]}
           /\ page' = page
           /\ sent' = <<>>
           /\ \A r \in runs' : r.id # lastEvent'.run
           /\ \A r \in runs :
                (r.id = lastEvent'.run /\ page = "submit" /\ r.inst = mountId)
                  => ~isSubmitting'
      /\ (\E i \in 1..Len(sent') : sent'[i].kind = "ingest") =>
           lastEvent'.type = "handleSubmit" ]_vars

\* The evaluate call answered non-2xx and the page is idle again.
C3_Witness ==
  /\ lastEvent.type = "EvalResponds"
  /\ ~lastEvent.resp.threw /\ ~lastEvent.resp.ok
  /\ toast = {[title |-> "Analysis failed", description |-> "evaluate rejected"]}
  /\ page = "submit"
  /\ ~isSubmitting
  /\ runs = {}

C4_WellFormed(e) ==
  /\ e.score.t = "num"
  /\ e.confidence.t = "num"
  /\ e.recommendation # {}
  /\ e.risks # {}
  /\ e.key_drivers # {}
  /\ e.negotiation_targets # {}
  /\ e.one_paragraph_summary # {}

\* C4: when the market-snapshot fetch of a run settles (rejected, non-2xx,
\* unreadable or successful) and the run holds a complete evaluation, that
\* step stores the submission, the analysis, the evaluation and the parsed
\* fields, navigates to the results page and raises no notification.
C4_SnapshotNeverFatal ==
  [][ \A r \in runs :
        (/\ lastEvent'.type = "MarketResponds"
         /\ lastEvent'.run = r.id
         /\ r.pc = "market"
         /\ C4_WellFormed(r.evalJson)) =>
          /\ page' = "results"
          /\ toast' = {}
          /\ sessionStorage'["offergo-submission"] # {}
          /\ \A sub \in sessionStorage'["offergo-submission"] :
               /\ sub.backendOfferId \in r.ingestJson.offer_id
               /\ sub.priorities = r.priorities
          /\ sessionStorage'["offergo-demo-analysis"] # {}
          /\ sessionStorage'["offergo-workflow-eval"] = {r.evalJson}
          /\ sessionStorage'["offergo-ingest-parsed"] # {} ]_vars

\* The snapshot fetch was rejected and the results are shown all the same.
C4_Witness ==
  /\ lastEvent.type = "MarketResponds"
  /\ lastEvent.resp.threw
  /\ page = "results"
  /\ toast = {}
  /\ sessionStorage["offergo-demo-analysis"] # {}
  /\ sessionStorage["offergo-market-snapshot"] = {}

\* C5: at most one handleSubmit run is between its first request and its
\* completion at any time.
C5_AtMostOnePipeline == Cardinality(runs) <= 1

\* ---- the stored analysis against the stored evaluation and submission
AnalysisStored ==
  /\ sessionStorage["offergo-demo-analysis"] # {}
  /\ sessionStorage["offergo-workflow-eval"] # {}
  /\ sessionStorage["offergo-submission"] # {}

StoredAnalysis == The(sessionStorage["offergo-demo-analysis"])
StoredEval == The(sessionStorage["offergo-workflow-eval"])
StoredSubmission == The(sessionStorage["offergo-submission"])

InRange(x, low, high) == x.t = "num" /\ low <= x.v /\ x.v <= high

\* r is n / d rounded to the nearest integer, a tie going up.
IsRounded(r, n, d) == (2 * r - 1) * d <= 2 * n /\ 2 * n < (2 * r + 1) * d

Clamped(r, low, high) ==
  IF r < low THEN low ELSE IF r > high THEN high ELSE r

\* C6: the stored overall score and confidence lie in 0..100, financial and
\* career in 8..98, lifestyle in 8..95, alignment in 8..96, risk in 12..95,
\* so every category score lies in 0..100, whatever the ratings, the raw
\* score and confidence (also outside their ranges), the recommendation and
\* the number of risks.
C6_ScoreBounds ==
  AnalysisStored =>
    LET a == StoredAnalysis
        cs == StoredAnalysis.categoryScores IN
    /\ InRange(a.overallScore, 0, 100)
    /\ InRange(a.confidence, 0, 100)
    /\ InRange(cs.financial, 8, 98)
    /\ InRange(cs.career, 8, 98)
    /\ InRange(cs.lifestyle, 8, 95)
    /\ InRange(cs.alignment, 8, 96)
    /\ InRange(cs.risk, 12, 95)
    /\ \A k \in DOMAIN cs : InRange(cs[k], 0, 100)

\* A raw score above 10 with the highest financial rating: both the overall
\* score and the financial score sit on their ceilings.
C6_Witness ==
  /\ AnalysisStored
  /\ StoredEval.score.v > 10 * ScoreDen
  /\ StoredSubmission.priorities.financial = PriorityMax
  /\ StoredAnalysis.overallScore.v = 100
  /\ StoredAnalysis.categoryScores.financial.v = 98

C7_Table(s) ==
  IF s >= 93 THEN "A"
  ELSE IF s \in 85..92 THEN "A-"
  ELSE IF s \in 78..84 THEN "B+"
  ELSE IF s \in 70..77 THEN "B"
  ELSE IF s \in 62..69 THEN "C"
  ELSE "D"

C7_Rank(g) ==
  CASE g = "A" -> 5 [] g = "A-" -> 4 [] g = "B+" -> 3 [] g = "B" -> 2
    [] g = "C" -> 1 [] OTHER -> 0

C7_TableAgrees ==
  /\ \A s \in 0..100 : toGrade(Num(s)) = C7_Table(s)
  /\ toGrade(Num(93)) = "A" /\ toGrade(Num(92)) = "A-"
  /\ toGrade(Num(70)) = "B" /\ toGrade(Num(61)) = "D"
  /\ \A s \in 0..99 :
       C7_Rank(toGrade(Num(s))) <= C7_Rank(toGrade(Num(s + 1)))

\* C7: toGrade agrees with the threshold table on every score 0..100
\* (93 -> A, 92 -> A-, 70 -> B, 61 -> D), never gives a higher score a worse
\* grade, and the stored grade is the table's grade of the stored overall
\* score.
C7_GradeMatchesTable ==
  /\ C7_TableAgrees
  /\ AnalysisStored =>
       /\ StoredAnalysis.overallScore.t = "num"
       /\ StoredAnalysis.grade = C7_Table(StoredAnalysis.overallScore.v)

\* An evaluation was stored whose overall score is exactly the A threshold.
C7_Witness ==
  /\ AnalysisStored
  /\ StoredAnalysis.overallScore.v = 93
  /\ StoredAnalysis.grade = "A"

\* C8: the stored overall score is the raw score times 10, rounded and
\* clamped to 0..100, and the stored confidence is the raw confidence times
\* 100, rounded and clamped to 0..100.
C8_OverallAndConfidence ==
  AnalysisStored =>
    /\ \E r \in (0 - 20)..120 :
         /\ IsRounded(r, 10 * StoredEval.score.v, ScoreDen)
         /\ StoredAnalysis.overallScore = Num(Clamped(r, 0, 100))
    /\ \E r \in (0 - 20)..120 :
         /\ IsRounded(r, 100 * StoredEval.confidence.v, ConfDen)
         /\ StoredAnalysis.confidence = Num(Clamped(r, 0, 100))

\* A raw score whose tenfold lies strictly between two integers was rounded
\* to the nearer one, and a raw confidence above 1 was clamped.
C8_Witness ==
  /\ AnalysisStored
  /\ StoredEval.score.v = 1
  /\ StoredAnalysis.overallScore.v = Round(10, ScoreDen)
  /\ StoredEval.confidence.v = ConfDen + 1
  /\ StoredAnalysis.confidence.v = 100

C9_Expected(overall, offset, rating, low, high) ==
  Clamped(overall + offset + (rating - 3) * 6, low, high)

\* C9: each of financial, career, lifestyle, alignment is the overall score
\* plus 0, -4, -8, -6 plus (its own rating - 3) * 6, clamped to 8..98,
\* 8..98, 8..95, 8..96; no other rating enters.
C9_CategoryScores ==
  AnalysisStored =>
    LET o == StoredAnalysis.overallScore.v
        cs == StoredAnalysis.categoryScores
        pr == StoredSubmission.priorities IN
    /\ cs.financial = Num(C9_Expected(o, 0, pr.financial, 8, 98))
    /\ cs.career = Num(C9_Expected(o, 0 - 4, pr.career, 8, 98))
    /\ cs.lifestyle = Num(C9_Expected(o, 0 - 8, pr.lifestyle, 8, 95))
    /\ cs.alignment = Num(C9_Expected(o, 0 - 6, pr.alignment, 8, 96))

\* Four different ratings and an overall score of 50: no clamp applies.
C9_Witness ==
  /\ AnalysisStored
  /\ StoredSubmission.priorities =
       [financial |-> 5, career |-> 2, lifestyle |-> 1, alignment |-> 4]
  /\ StoredAnalysis.overallScore.v = 50
  /\ StoredAnalysis.categoryScores.financial.v = 62
  /\ StoredAnalysis.categoryScores.career.v = 40
  /\ StoredAnalysis.categoryScores.lifestyle.v = 30
  /\ StoredAnalysis.categoryScores.alignment.v = 50

C10_Penalty(recommendation) ==
  IF recommendation = {"needs_more_info"} THEN 18
  ELSE IF recommendation = {"renegotiate"} THEN 8
  ELSE 0

\* C10: the risk score is 76 - 7 * (number of risks) - penalty + 0.1 *
\* confidence, rounded and clamped to 12..95, with penalty 18, 8 or 0 and
\* confidence the raw confidence times 100, rounded and clamped to 0..100;
\* neither the raw score nor a rating enters.
C10_RiskScore ==
  AnalysisStored =>
    \E c \in (0 - 20)..120 :
      /\ IsRounded(c, 100 * StoredEval.confidence.v, ConfDen)
      /\ \E r \in (0 - 20)..100 :
           /\ IsRounded(r, 760 - 70 * Len(The(StoredEval.risks))
                             - 10 * C10_Penalty(StoredEval.recommendation)
                             + Clamped(c, 0, 100), 10)
           /\ StoredAnalysis.categoryScores.risk = Num(Clamped(r, 12, 95))

\* A raw confidence above 1 with two risks and a renegotiate recommendation:
\* 76 - 14 - 8 + 10 = 64.
C10_Witness ==
  /\ AnalysisStored
  /\ StoredEval.confidence.v = ConfDen + 1
  /\ Len(The(StoredEval.risks)) = 2
  /\ StoredEval.recommendation = {"renegotiate"}
  /\ StoredAnalysis.categoryScores.risk.v = 64

\* C11: when the market-snapshot fetch of a run settles and the run holds an
\* evaluation that lacks a field the normaliser reads (score, confidence,
\* recommendation, risks, key_drivers, negotiation_targets or
\* one_paragraph_summary), the step raises the 'Analysis failed' notification,
\* stores no analysis and does not navigate to the results page.
C11_MalformedFailsLoudly ==
  [][ \A r \in runs :
        (/\ lastEvent'.type = "MarketResponds"
         /\ lastEvent'.run = r.id
         /\ r.pc = "market"
         /\ ~C4_WellFormed(r.evalJson)) =>
          /\ toast' # {}
          /\ \A t \in toast' : t.title = "Analysis failed"
          /\ page' = page
          /\ sessionStorage'["offergo-demo-analysis"] =
               sessionStorage["offergo-demo-analysis"] ]_vars

C12_Kept(ds) ==
  {i \in 1..Len(ds) : ds[i].impact = "positive" \/ ds[i].impact = "neutral"}

\* The k-th kept driver, counting in list order.
C12_Kth(ds, k) ==
  CHOOSE i \in C12_Kept(ds) : Cardinality({j \in C12_Kept(ds) : j <= i}) = k

C12_Placeholder == "Model did not return positive key drivers."

\* C12: the stored strengths are the labels of the positive or neutral key
\* drivers in list order, cut to the first 6; no label of a negative driver is
\* among them; with no positive or neutral driver they are the placeholder
\* alone; so their number is between 1 and 6.
C12_Strengths ==
  AnalysisStored =>
    LET ds == The(StoredEval.key_drivers)
        s == StoredAnalysis.strengths
        n == Cardinality(C12_Kept(ds)) IN
    /\ 1 <= Len(s) /\ Len(s) <= 6
    /\ n = 0 => s = <<C12_Placeholder>>
    /\ n > 0 =>
         /\ Len(s) = IF n < 6 THEN n ELSE 6
         /\ \A k \in 1..Len(s) : s[k] = ds[C12_Kth(ds, k)].label
         /\ \A i \in 1..Len(ds) :
              ds[i].impact = "negative" =>
                \A k \in 1..Len(s) : s[k] # ds[i].label

\* Eight drivers, the second negative and the other seven positive or
\* neutral: six strengths are stored, the second being the third driver's.
C12_Witness ==
  /\ AnalysisStored
  /\ Len(The(StoredEval.key_drivers)) = 8
  /\ The(StoredEval.key_drivers)[2].impact = "negative"
  /\ Cardinality(C12_Kept(The(StoredEval.key_drivers))) = 7
  /\ Len(StoredAnalysis.strengths) = 6
  /\ StoredAnalysis.strengths[2] = "driver 3"

C13_Placeholder == "No negotiation targets were returned by the model."

\* The six pieces of the k-th target start at piece 7 * (k - 1) + 1 of the
\* text; a single space follows each target but the last.
C13_TargetAt(text, k, t) ==
  LET at == 7 * (k - 1) IN
  /\ text[at + 1] = t.item
  /\ text[at + 2] = ": "
  /\ text[at + 3] = t.ask
  /\ text[at + 4] = " ("
  /\ text[at + 5] = t.reason
  /\ text[at + 6] = ")"

\* C13: the stored negotiation text is "{item}: {ask} ({reason})" of every
\* negotiation target in list order, joined by single spaces, and it is the
\* placeholder exactly when there is no target.
C13_NegotiationText ==
  AnalysisStored =>
    LET ts == The(StoredEval.negotiation_targets)
        text == StoredAnalysis.negotiationInsights IN
    /\ (text = <<C13_Placeholder>>) <=> (Len(ts) = 0)
    /\ Len(ts) > 0 =>
         /\ Len(text) = 7 * Len(ts) - 1
         /\ \A k \in 1..Len(ts) : C13_TargetAt(text, k, ts[k])
         /\ \A k \in 1..(Len(ts) - 1) : text[7 * k] = " "

\* Three targets, not all the same: the text holds all three in order.
C13_Witness ==
  /\ AnalysisStored
  /\ Len(The(StoredEval.negotiation_targets)) = 3
  /\ The(StoredEval.negotiation_targets)[1].item = "Equity"
  /\ The(StoredEval.negotiation_targets)[3].item = "Base"
  /\ Len(StoredAnalysis.negotiationInsights) = 20
  /\ StoredAnalysis.negotiationInsights[15] = "Base"

\* ------------------------------------------------ results page: totals
\* What the results page was mounted on, and whether its derivation ran to
\* its end.
StoredRaw == sessionStorage["offergo-workflow-eval"]

StoredParsed == sessionStorage["offergo-ingest-parsed"]

Derived == page = "results" /\ ~ExtractThrows(StoredRaw)

\* The three sources of a total: the structured fields, the amount read
\* after "offer(ed)" and the amount read after "market" (0 when there is
\* none).
StructuredOffer ==
  IF StoredParsed = {} THEN 0 ELSE StructuredTotal(The(StoredParsed))

TextOffer == NumberOr0(extractOfferTotal(StoredRaw))

TextMarket == NumberOr0(extractMarketTotal(StoredRaw))

\* The offer total known before any ratio is applied, 0 when none is.
KnownOfferOf(structured, text) ==
  IF structured > 0 THEN structured ELSE IF text > 0 THEN text ELSE 0

KnownOffer == KnownOfferOf(StructuredOffer, TextOffer)

KnownMarket == IF TextMarket > 0 THEN TextMarket ELSE 0

Accepting == StoredRaw # {} /\ The(StoredRaw).recommendation = {"accept"}

\* round(x * 0.95), round(x * 1.2), round(x * 0.75) of an amount x counted
\* in hundredths: the whole amount w with w - 1/2 <= x * mult / den < w + 1/2.
IsRoundOf(w, x, mult, den) ==
  /\ w % 100 = 0
  /\ IsRounded(w \div 100, x * mult, 100 * den)

IsMarketOf(m, offer) ==
  IF Accepting THEN IsRoundOf(m, offer, 95, 100)
  ELSE IsRoundOf(m, offer, 12, 10)

\* The finished derivation's totals: what is known, or else the ratio of
\* the other side, or else nothing positive.
IsDerivedOffer(o, knownOffer, knownMarket) ==
  IF knownOffer > 0 THEN o = knownOffer
  ELSE IF knownMarket > 0 THEN IsRoundOf(o, knownMarket, 75, 100)
  ELSE o = 0

IsDerivedMarket(m, knownOffer, knownMarket) ==
  IF knownMarket > 0 THEN m = knownMarket
  ELSE IF knownOffer > 0 THEN IsMarketOf(m, knownOffer)
  ELSE m = 0

\* A derived total is strictly positive unless nothing gives it or the
\* ratio rounds to 0.
OfferPositive(knownOffer, knownMarket) ==
  ~IsDerivedOffer(0, knownOffer, knownMarket)

MarketPositive(knownOffer, knownMarket) ==
  ~IsDerivedMarket(0, knownOffer, knownMarket)

\* C14: the market comparison panel is shown if and only if the finished
\* derivation's offer total and market total are both strictly positive;
\* a shown panel displays two totals > 0.
C14_PanelShown == offerVsMarket # {}

C14_BothPositive ==
  /\ OfferPositive(KnownOffer, KnownMarket)
  /\ MarketPositive(KnownOffer, KnownMarket)

C14_PanelIffBothPositive ==
  Derived =>
    /\ C14_PanelShown <=> C14_BothPositive
    /\ \A t \in offerVsMarket : t.offerTotal > 0 /\ t.marketTotal > 0

\* A panel whose market total came from the ratio, and a derivation whose
\* ratio rounds the offer to 0 and so shows no panel.
C14_Witness ==
  /\ Derived
  /\ C14_PanelShown
  /\ KnownMarket = 0
  /\ StoredParsed # {}

C14_WitnessOmitted ==
  /\ Derived
  /\ ~C14_PanelShown
  /\ KnownMarket > 0
  /\ KnownOffer = 0

\* C15: with parsed fields stored and base + base * (bonus / 100) + equity
\* > 0 (a null or missing field counted as 0), the offer total shown is
\* exactly that value whatever amount the evaluation's text holds; the
\* text's amount is shown only when that value is not > 0.
C15_StructuredPreferred ==
  Derived /\ StoredParsed # {} =>
    \A t \in offerVsMarket :
      /\ StructuredOffer > 0 => t.offerTotal = StructuredOffer
      /\ t.offerTotal = TextOffer /\ TextOffer # StructuredOffer
           => StructuredOffer <= 0

\* A structured total over a null bonus, shown although the text holds a
\* different amount.
C15_Witness ==
  /\ Derived
  /\ StoredParsed # {}
  /\ The(StoredParsed).bonus_target = Null
  /\ StructuredOffer > 0
  /\ TextOffer > 0
  /\ TextOffer # StructuredOffer
  /\ \E t \in offerVsMarket : t.offerTotal = StructuredOffer

\* The text's amount shown because the structured total is not > 0.
C15_WitnessText ==
  /\ Derived
  /\ StoredParsed # {}
  /\ StructuredOffer < 0
  /\ \E t \in offerVsMarket : t.offerTotal = TextOffer

\* C16: the ratio fallback.  With an offer total known (> 0) and no market
\* total known, the market total is round(offer * 0.95) when the
\* recommendation is accept and round(offer * 1.2) otherwise, no stored
\* evaluation included; with a market total known and no offer total known,
\* the offer total is round(market * 0.75); with both known neither is
\* altered; with neither known nothing positive results.
C16_TotalsFollow(t, knownOffer, knownMarket) ==
  /\ IsDerivedOffer(t.offerTotal, knownOffer, knownMarket)
  /\ IsDerivedMarket(t.marketTotal, knownOffer, knownMarket)

C16_RatioFallback ==
  Derived =>
    /\ \A t \in offerVsMarket : C16_TotalsFollow(t, KnownOffer, KnownMarket)
    /\ KnownOffer = 0 /\ KnownMarket = 0 => offerVsMarket = {}
    /\ KnownOffer > 0 /\ KnownMarket > 0 => offerVsMarket # {}

\* A market total derived with no evaluation stored (factor 1.2), one
\* derived under accept (factor 0.95), and an offer total derived from the
\* market's.
C16_Witness ==
  /\ Derived
  /\ StoredRaw = {}
  /\ KnownOffer > 0
  /\ \E t \in offerVsMarket : 10 * t.marketTotal = 12 * KnownOffer

C16_WitnessAccept ==
  /\ Derived
  /\ Accepting
  /\ KnownOffer > 0
  /\ KnownMarket = 0
  /\ \E t \in offerVsMarket : t.marketTotal < KnownOffer

C16_WitnessOffer ==
  /\ Derived
  /\ KnownOffer = 0
  /\ KnownMarket > 0
  /\ \E t \in offerVsMarket : t.offerTotal < KnownMarket

\* ------------------------------------------------------- results page: chat
\* The step is a submission of the chat form, or the arrival of the
\* response to the chat request r.
IsSend == lastEvent'.type = "sendMessage" /\ lastEvent'.run = chatCount + 1

IsArrival(r) ==
  /\ r \in chatRuns
  /\ r \notin chatRuns'
  /\ lastEvent'.type = "ChatResponds"
  /\ lastEvent'.run = r.id

\* s extends t by the entries es and changes nothing of t.
Extends(s, t, n) == Len(s) = Len(t) + n /\ SubSeq(s, 1, Len(t)) = t

IsUserEntry(e, text) == e.role = "user" /\ e.content = {text}

IsErrorEntry(e) ==
  /\ e.role = "ai"
  /\ \E msg \in {MissingContext, "Failed to fetch", "chat rejected",
                 "Unexpected token"} :
       e.content = {"I couldn't reach Nemotron chat right now. " \o msg}

Destructive(t) == t # {} /\ \A n \in t : n.variant = "destructive"

\* C17: a chat message sent with no backend offer id resolved appends the
\* user's message and then an error entry to the transcript, raises a
\* destructive notification, leaves typing false and issues no chat
\* request.
C17_Step ==
  IsSend /\ backendOfferId = {} =>
    /\ Extends(chat', chat, 2)
    /\ IsUserEntry(chat'[Len(chat) + 1], trim(input))
    /\ IsErrorEntry(chat'[Len(chat) + 2])
    /\ Destructive(toast')
    /\ typing' = FALSE
    /\ sent' = <<>>
    /\ chatRuns' = chatRuns

C17_NoOfferIdNoRequest == [][C17_Step]_vars

\* Two messages sent without an offer id: four entries, no request.
C17_Witness ==
  /\ page = "results"
  /\ backendOfferId = {}
  /\ lastEvent.type = "sendMessage"
  /\ chatCount = 2
  /\ Len(chat) = 4
  /\ IsUserEntry(chat[3], "Should I counter?")
  /\ IsErrorEntry(chat[4])
  /\ Destructive(toast)
  /\ ~typing
  /\ chatRuns = {}

\* C18: when a chat request fails (the fetch rejects or the status is not
\* 2xx) an explanatory ai entry is appended to the transcript and a
\* notification is raised; the transcript of a mounted results page only
\* grows: every entry, the user's message that triggered the request
\* included, stays where it was.
C18_Failure == lastEvent'.resp.threw \/ ~lastEvent'.resp.ok

C18_Explains(r) ==
  /\ Extends(chat', chat, 1)
  /\ IsErrorEntry(chat'[Len(chat')])
  /\ IsUserEntry(chat'[Len(chat)], r.text)
  /\ toast' # {}

C18_AppendOnly ==
  /\ Len(chat') >= Len(chat)
  /\ Extends(chat', chat, Len(chat') - Len(chat))

C18_Step ==
  /\ page = "results" /\ page' = "results" => C18_AppendOnly
  /\ \A r \in chatRuns :
       IsArrival(r) /\ r.live /\ C18_Failure => C18_Explains(r)

C18_FailureAppends == [][C18_Step]_vars

\* An answered question followed by a question whose request was rejected
\* with a non-2xx status.
C18_Witness ==
  /\ page = "results"
  /\ lastEvent.type = "ChatResponds"
  /\ ~lastEvent.resp.threw
  /\ ~lastEvent.resp.ok
  /\ Len(chat) = 4
  /\ chat[2] = Msg("ai", {"Ask for 10% more."})
  /\ IsUserEntry(chat[3], "Is the equity fair?")
  /\ IsErrorEntry(chat[4])
  /\ toast # {}

\* C19: the transcript is in send order (a sent message goes after every
\* entry already there, and a response goes right after the message it
\* answers), and the typing indicator of the mounted results page is on in
\* every state in which a request it dispatched awaits its response, and
\* off in every other state.
C19_Outstanding == \E r \in chatRuns : r.live

C19_Indicator ==
  /\ page = "results" => (typing <=> C19_Outstanding)
  /\ page # "results" => ~typing /\ ~C19_Outstanding
  /\ chatRuns = {} => ~typing

C19_SendLast ==
  IsSend =>
    /\ Len(chat') > Len(chat)
    /\ SubSeq(chat', 1, Len(chat)) = chat
    /\ IsUserEntry(chat'[Len(chat) + 1], trim(input))

C19_AnswerNext ==
  \A r \in chatRuns :
    IsArrival(r) /\ r.live =>
      /\ Extends(chat', chat, 1)
      /\ IsUserEntry(chat[Len(chat)], r.text)
      /\ chat'[Len(chat')].role = "ai"

C19_OrderAndTyping ==
  /\ []C19_Indicator
  /\ [][C19_SendLast /\ C19_AnswerNext]_vars

\* A second question waiting for its response behind an answered first one.
C19_Witness ==
  /\ page = "results"
  /\ typing
  /\ C19_Outstanding
  /\ Len(chat) = 3
  /\ IsUserEntry(chat[1], "Should I counter?")
  /\ chat[2].role = "ai"
  /\ IsUserEntry(chat[3], "Is the equity fair?")

\* C20: chat requests of a mounted results page are serialized: while its
\* response is pending (typing = true) no step dispatches a chat request,
\* so at most one request of the page is outstanding in every state, for
\* every interleaving of input edits, sends and response arrivals.
C20_Pending == {r \in chatRuns : r.live}

C20_Ids(rs) == {r.id : r \in rs}

C20_NoDispatchWhileTyping ==
  typing => sent' = <<>> /\ C20_Ids(chatRuns') \subseteq C20_Ids(chatRuns)

C20_Serialized ==
  /\ [](Cardinality(C20_Pending) <= 1)
  /\ [][C20_NoDispatchWhileTyping]_vars

\* A response is pending and the next question is already typed in: only
\* the disabled button keeps it from being sent.
C20_Witness ==
  /\ page = "results"
  /\ typing
  /\ Cardinality(C20_Pending) = 1
  /\ trim(input) = "Should I counter?"
  /\ chatCount < MaxChats

\* ------------------------------------------------------- profile and account
\* C21: after logout the stored profile is cleared and none of the six
\* session keys (submission snapshot, derived analysis, workflow
\* evaluation, parsed ingestion fields, market snapshot, demo-session
\* marker) is still stored, so a results page opened afterwards shows
\* nothing of the previous analysis.
C21_LoggedOut == lastEvent.type = "logout"

C21_LogoutClears ==
  C21_LoggedOut =>
    /\ \A p \in localStorage : ~p.completed /\ p.name = ""
    /\ \A k \in SessionKeys : sessionStorage[k] = {}

\* C22: whichever of the entries read at start-up (profile, submission
\* snapshot, derived analysis, workflow evaluation, parsed ingestion
\* fields) holds text that is not JSON, the read is caught and the page
\* still renders: no mount takes the page down, and the profile read is the
\* empty profile.
C22_Renders == page # "blank"

C22_ProfileAsAbsent ==
  page = "profile" /\ lastEvent.type = "navigate" => localStorage = {profile}

C22_MalformedNeverCrashes == C22_Renders /\ C22_ProfileAsAbsent

\* C23: the profile store writes through.  The stored profile equals the
\* profile in memory in every state; a first load with nothing stored gives
\* the empty profile with completed = false; updateProfile(patch) changes
\* the patched field and no other, completeProfile changes completed to
\* true and nothing else; completed goes back to false through logout only.
C23_Changed ==
  {k \in DOMAIN profile' : k \notin DOMAIN profile \/ profile'[k] # profile[k]}

C23_Kept == DOMAIN profile \subseteq DOMAIN profile'

C23_Step ==
  /\ lastEvent'.type = "updateProfile" =>
       /\ C23_Kept
       /\ Cardinality(C23_Changed) = 1
       /\ "completed" \notin C23_Changed
  /\ lastEvent'.type = "handleComplete" =>
       C23_Kept /\ C23_Changed \subseteq {"completed"} /\ profile'.completed
  /\ profile.completed /\ ~profile'.completed => lastEvent'.type = "logout"

C23_StartsEmpty ==
  lastEvent.type \in {"init", "logout"} =>
    /\ ~profile.completed
    /\ \A k \in DOMAIN profile \ {"completed", "resumeName"} : profile[k] = ""
    /\ profile.resumeName = {}

C23_WriteThrough ==
  /\ [](localStorage = {profile})
  /\ []C23_StartsEmpty
  /\ [][C23_Step]_vars

\* A completed profile edited afterwards: a name, and a field the empty
\* profile does not have, both stored.
C23_Witness ==
  /\ page = "profile"
  /\ lastEvent.type = "updateProfile"
  /\ profile.completed
  /\ profile.name = "Alex Johnson"
  /\ "email" \in DOMAIN profile
  /\ localStorage = {profile}

\* ------------------------------------------------------- results and runs
\* C24: when the results shown are those of the stored submission, the
\* offer comparison table is shown if and only if that submission held
\* more than one uploaded offer, and then with one column per offer.
C24_ShowsStored ==
  /\ page = "results"
  /\ AnalysisStored
  /\ data = sessionStorage["offergo-demo-analysis"]

C24_Columns == Len(The(data).comparisonData)

C24_TableForSeveralOffers ==
  C24_ShowsStored =>
    /\ TableShown(data) <=> Len(StoredSubmission.offers) > 1
    /\ TableShown(data) => C24_Columns = Len(StoredSubmission.offers)

\* C25: within one submission the requests go out in the order ingest,
\* evaluate, market-snapshot, each at most once: the ingest request carries
\* the file of the offer marked current and no other; evaluate is sent only
\* on a successful ingest response that brought an offer_id, market-snapshot
\* only on a successful evaluate response, both with that offer_id; and the
\* results page is entered only with the run's session snapshot written.
C25_Rank(pc) == IF pc = "ingest" THEN 1 ELSE IF pc = "evaluate" THEN 2 ELSE 3

C25_Succeeded == lastEvent'.resp.ok /\ lastEvent'.resp.jsonOk

C25_CurrentFiles ==
  {offers[i].file : i \in {j \in 1..Len(offers) : offers[j].isCurrent}}

C25_Ingest(q) ==
  /\ lastEvent'.type = "handleSubmit"
  /\ \A r \in runs : r.id # q.run
  /\ \E r \in runs' : r.id = q.run /\ r.pc = "ingest"
  /\ {b.file : b \in q.body} = C25_CurrentFiles
  /\ Cardinality(C25_CurrentFiles) = 1

C25_Evaluate(q) ==
  /\ lastEvent'.type = "IngestResponds"
  /\ lastEvent'.run = q.run
  /\ C25_Succeeded
  /\ lastEvent'.resp.offer_id = {q.offer_id}
  /\ \E r \in runs : r.id = q.run /\ r.pc = "ingest"
  /\ \E r \in runs' :
       r.id = q.run /\ r.pc = "evaluate" /\ r.ingestJson.offer_id = {q.offer_id}

C25_Market(q) ==
  /\ lastEvent'.type = "EvalResponds"
  /\ lastEvent'.run = q.run
  /\ C25_Succeeded
  /\ \E r \in runs :
       r.id = q.run /\ r.pc = "evaluate" /\ r.ingestJson.offer_id = {q.offer_id}
  /\ \E r \in runs' : r.id = q.run /\ r.pc = "market"

C25_Request(q) ==
  /\ q.kind = "ingest" => C25_Ingest(q)
  /\ q.kind = "evaluate" => C25_Evaluate(q)
  /\ q.kind = "market-snapshot" => C25_Market(q)

C25_Forward ==
  \A r \in runs : \A n \in runs' :
    n.id = r.id => C25_Rank(n.pc) >= C25_Rank(r.pc)

C25_Entered ==
  page # "results" /\ page' = "results" =>
    /\ lastEvent'.type = "MarketResponds"
    /\ \E r \in runs :
         /\ r.id = lastEvent'.run
         /\ r.pc = "market"
         /\ \A sub \in sessionStorage'["offergo-submission"] :
              {sub.backendOfferId} = r.ingestJson.offer_id
    /\ \A k \in SessionKeys \ {"offergo-market-snapshot", "offergo-demo-user"} :
         sessionStorage'[k] # {}

C25_Step ==
  /\ Len(sent') <= 1
  /\ \A i \in 1..Len(sent') : C25_Request(sent'[i])
  /\ C25_Forward
  /\ C25_Entered

C25_CallOrder == [][C25_Step]_vars

\* A finished run over two offers whose second one was current.
C25_Witness ==
  /\ page = "results"
  /\ lastEvent.type = "MarketResponds"
  /\ AnalysisStored
  /\ Len(StoredSubmission.offers) = 2
  /\ StoredSubmission.offers[2].isCurrent
  /\ StoredSubmission.offers[1].fileName # StoredSubmission.offers[2].fileName

\* C26: submitting exactly the pair offergo@gmail.com / 123456 to the
\* log-in form stores a profile with completed = true and sets the
\* demo-session marker; submitting any other pair sets the error
\* "Invalid email or password." and changes neither storage.
C26_Hardcoded(email, password) ==
  email = "offergo@gmail.com" /\ password = "123456"

C26_LoggedIn ==
  /\ localStorage' # {}
  /\ \A p \in localStorage' : p.completed
  /\ sessionStorage'["offergo-demo-user"] # {}

C26_Rejected ==
  /\ loginError' = "Invalid email or password."
  /\ localStorage' = localStorage
  /\ sessionStorage' = sessionStorage

C26_Outcome(email, password) ==
  IF C26_Hardcoded(email, password) THEN C26_LoggedIn ELSE C26_Rejected

C26_Step ==
  \A email \in Emails : \A password \in Passwords :
    login(email, password) => C26_Outcome(email, password)

C26_DemoLogin == [][C26_Step]_vars

\* Logged in after a rejected attempt had shown the error, and the rejected
\* attempt itself.
C26_Witness ==
  /\ lastEvent.type = "login"
  /\ profile.completed
  /\ profile.name = "Bob Wang"
  /\ localStorage = {profile}
  /\ sessionStorage["offergo-demo-user"] = {"demo-bob"}
  /\ loginError = ""

C26_WitnessRejected ==
  /\ lastEvent.type = "login"
  /\ loginError = "Invalid email or password."
  /\ ~profile.completed
  /\ sessionStorage["offergo-demo-user"] = {}

\* C27: a handleSubmit run that ends with the "Analysis failed"
\* notification has changed none of the session keys, at whatever step the
\* error arose; so the stored offer id and the stored analysis always come
\* from the same submission.
C27_Failed == \E t \in toast' : t.title = "Analysis failed"

C27_FailedRunWritesNothing ==
  [][C27_Failed => sessionStorage' = sessionStorage]_vars

\* C28: after a successful submission every per-submission session value
\* belongs to that submission or is absent; in particular, when the run's
\* snapshot fetch failed no market snapshot remains stored.
C28_Succeeds == lastEvent'.type = "MarketResponds" /\ lastEvent' # lastEvent
                /\ toast' = {}

C28_SnapshotFailed ==
  \E r \in runs : \E resp \in MarketResponses :
    /\ MarketResponds(r, resp)
    /\ MarketSnapshot(resp) = {}

C28_NoStaleSnapshot ==
  [][C28_Succeeds /\ C28_SnapshotFailed =>
       sessionStorage'["offergo-market-snapshot"] = {}]_vars

\* C29: on the mounted results page every user message sent is eventually
\* followed by exactly one ai entry once its request settles, and whenever
\* no chat request of the page is outstanding the transcript alternates
\* user, ai, user, ai, ... from a user entry and has even length.
C29_Outstanding == \E r \in chatRuns : r.live

C29_Alternates ==
  \A i \in 1..Len(chat) : chat[i].role = IF i % 2 = 1 THEN "user" ELSE "ai"

C29_Quiet == ~C29_Outstanding => C29_Alternates /\ Len(chat) % 2 = 0

C29_Awaiting == Len(chat) > 0 /\ chat[Len(chat)].role = "user"

C29_Step ==
  C29_Awaiting /\ chat' # chat =>
    \/ page' # "results" /\ chat' = <<>>
    \/ Extends(chat', chat, 1) /\ chat'[Len(chat')].role = "ai"

C29_TranscriptPairing ==
  /\ []C29_Quiet
  /\ [][C29_Step]_vars
  /\ C29_Awaiting ~> ~C29_Awaiting

C29_Witness ==
  /\ page = "results"
  /\ lastEvent.type = "ChatResponds"
  /\ ~C29_Outstanding
  /\ Len(chat) = 4
  /\ C29_Alternates

\* C30: the ratings sent to the ingest endpoint, the ratings the category
\* scores are computed from and the ratings stored in the submission are
\* those at the moment Analyze was clicked, and so are the stored offer list
\* and the analysed file name, whatever the user edits while the requests
\* are in flight.
C30_Clicked == lastEvent'.type = "handleSubmit" /\ runCount' = runCount + 1

C30_AtClick ==
  C30_Clicked =>
    \E r \in runs' :
      /\ r.id = runCount'
      /\ r.priorities = priorities
      /\ r.offers = offers
      /\ r.currentOffer = CurrentOffer(offers)
      /\ sent' = <<Request(r.id, "ingest", 0,
                           {[file |-> CurrentOffer(offers).file,
                             priorities |-> priorities]})>>

C30_Kept ==
  \A r \in runs : \A q \in runs' :
    q.id = r.id =>
      /\ q.priorities = r.priorities
      /\ q.offers = r.offers
      /\ q.currentOffer = r.currentOffer

C30_Finished(r) ==
  /\ lastEvent'.type = "MarketResponds"
  /\ lastEvent'.run = r.id
  /\ r \notin runs'
  /\ toast' = {}

C30_StoredOffers(r) ==
  [i \in 1..Len(r.offers) |->
     [id |-> r.offers[i].id, fileName |-> r.offers[i].file,
      isCurrent |-> r.offers[i].isCurrent]]

C30_Stored ==
  \A r \in runs :
    C30_Finished(r) =>
      /\ \E s \in sessionStorage'["offergo-submission"] :
           s.priorities = r.priorities /\ s.offers = C30_StoredOffers(r)
      /\ \E a \in sessionStorage'["offergo-demo-analysis"] :
           /\ a.categoryScores =
                JsonAnalysis(mapEvalToAnalysis(r.evalJson, r.priorities,
                                               r.currentOffer.file)).categoryScores
           /\ a.comparisonData =
                JsonAnalysis(mapEvalToAnalysis(r.evalJson, r.priorities,
                                               r.currentOffer.file)).comparisonData

C30_WitnessInFlight ==
  /\ page = "submit"
  /\ \E r \in runs :
       /\ r.inst = mountId
       /\ r.priorities # priorities
       /\ r.offers # offers

====
